---- MODULE Spec2Model ----
(***************************************************************************)
(* Model of nr_isaac_format: IsaacRecordConverter.convert() and the block  *)
(* mappers it drives (src/src/nr_isaac_format).                            *)
(*                                                                         *)
(* One conversion is a walk of the mapper list: Convert builds the context *)
(* and the root record, RunMapper is one iteration of the `for mapper in   *)
(* self.mappers` loop (map, validate, merge, or the except branch), and    *)
(* Finish is the schema validation and the construction of the             *)
(* ConversionResult.                                                       *)
(*                                                                         *)
(* Numbers are counted in units of 1e-4, so q = 0.01 is 100 and the 1%     *)
(* uncertainty of a multiple of 0.01 is a whole number of units.           *)
(***************************************************************************)
EXTENDS Integers, Sequences, FiniteSets, TLC

VARIABLES
    mappers,          \* self.mappers: the ordered mapper list
    validate_output,  \* self.validate_output
    schema,           \* self._schema: the cached schema document
    pc,               \* position of the caller/convert(): idle, mapping, loading, done
    remaining,        \* convert() calls the caller will still make
    source,           \* the `result` argument (AssemblyResult)
    call,             \* the record_id / timestamp arguments of the running call
    context,          \* the MapperContext of the running call
    record,           \* the record dict being assembled
    error_details,    \* the error_details list of the running call
    idx,              \* index of the next mapper of the for loop
    invoked,          \* the map() calls made so far, in order
    schema_errors,    \* the schema_errors local of convert()
    result,           \* the ConversionResult returned by the last finished call
    cached,           \* what `self._schema` was when _load_schema() tested it
    world,            \* the jsonschema package and schema files as this call found them
    loads,            \* schema documents parsed from disk so far
    threads,          \* threads that call convert() on this converter
    other,            \* the locals of the convert() call of the other thread
    json              \* the text the last to_json() call returned

vars == <<mappers, validate_output, schema, pc, remaining, source, call, context,
          record, error_details, idx, invoked, schema_errors, result, cached, world,
          loads, threads, other, json>>

(***************************************************************************)
(* Bounds                                                                  *)
(***************************************************************************)
\* The longest caller-supplied mapper list
MaxMappers == 3

\* The most violations one schema validation reports
MaxSchemaErrors == 1

\* The longest q or r array of a source
MaxLen == 2

\* The most layers of a sample
MaxLayers == 3

(***************************************************************************)
(* Small helpers                                                           *)
(***************************************************************************)
Range(s) == {s[i] : i \in DOMAIN s}

Has(f, k) == k \in DOMAIN f

\* dict.get(k, default)
Get(f, k, default) == IF k \in DOMAIN f THEN f[k] ELSE default

\* d[k] = v on a dict
Put(f, k, v) == [x \in (DOMAIN f) \cup {k} |-> IF x = k THEN v ELSE f[x]]

EmptyDict == [x \in {} |-> 0]

\* `if cond: d[k] = v`
SetIf(cond, f, k, v) == IF cond THEN Put(f, k, v) ELSE f

\* `if cond: s.append(x)`
AppendIf(cond, s, x) == IF cond THEN Append(s, x) ELSE s

\* d.update(g)
Update(f, g) ==
    [k \in DOMAIN f \cup DOMAIN g |-> IF k \in DOMAIN g THEN g[k] ELSE f[k]]

(***************************************************************************)
(* MapperContext (mappers/base.py)                                         *)
(***************************************************************************)
\* An unset Optional number
NoNum == [k |-> "none", v |-> 0]

\* MeasurementData(): every field None
EmptyMeasurementData ==
    [q_min |-> NoNum, q_max |-> NoNum, n_points |-> NoNum, measurement_geometry |-> ""]

\* MapperContext(result, record_id, created_utc): the dataclass defaults
NewContext(rid, ts) ==
    [record_id |-> rid, created_utc |-> ts, warnings |-> <<>>, errors |-> <<>>,
     metadata |-> EmptyDict, measurement_data |-> EmptyMeasurementData]

\* An add_warning that keeps the last warning only
add_warning_replaces(ctx, msg) == [ctx EXCEPT !.warnings = <<msg>>]

add_warning(ctx, msg) == [ctx EXCEPT !.warnings = Append(@, msg)]

add_error(ctx, msg) == [ctx EXCEPT !.errors = Append(@, msg)]

has_errors(ctx) == Len(ctx.errors) > 0

\* `if cond: context.add_warning(msg)`
WarnIf(cond, ctx, msg) == IF cond THEN add_warning(ctx, msg) ELSE ctx

(***************************************************************************)
(* Caller-supplied mappers: the Mapper contract (mappers/base.py).  A      *)
(* mapper's map returns a block, returns None or raises, possibly after    *)
(* recording a message; its validate returns true or false (an override    *)
(* may record an error first) or raises.                                   *)
(***************************************************************************)
MockBehaviours ==
    { [map |-> "block", validate |-> "true",      required |-> TRUE],
      [map |-> "block", validate |-> "false_err", required |-> FALSE],
      [map |-> "block", validate |-> "false",     required |-> FALSE],
      [map |-> "block", validate |-> "raise",     required |-> FALSE],
      [map |-> "none",  validate |-> "true",      required |-> FALSE],
      [map |-> "none",  validate |-> "true",      required |-> TRUE],
      [map |-> "none_err", validate |-> "true",   required |-> FALSE],
      [map |-> "warn_raise", validate |-> "true", required |-> TRUE] }

MockNames == <<"mock1", "mock2", "mock3", "mock4", "mock5">>

MockMapper(i, b) == [cls |-> "Mock", name |-> MockNames[i], beh |-> b]

MockLists ==
    UNION { { [i \in 1..n |-> MockMapper(i, f[i])] : f \in [1..n -> MockBehaviours] }
            : n \in 1..MaxMappers }

MockBlock(m) == [mock |-> m.name]

\* A caller's mapper whose map() writes the channels of the context: the
\* fields of measurement_data and entries of the metadata bag
Publisher(typed, bag) ==
    [cls |-> "Mock", name |-> MockNames[1],
     beh |-> [map |-> "publish", validate |-> "true", required |-> FALSE,
              typed |-> typed, bag |-> bag]]

\* What a map() or validate() call hands back to convert(): how it ended,
\* the block (map only), the context as the call left it, and the exception
\* message and type when it raised.
Returned(block, ctx) == [outcome |-> "block", block |-> block, ctx |-> ctx, msg |-> "", type |-> ""]

ReturnedNone(ctx) == [outcome |-> "none", block |-> EmptyDict, ctx |-> ctx, msg |-> "", type |-> ""]

Raised(ctx, msg, type) == [outcome |-> "raise", block |-> EmptyDict, ctx |-> ctx, msg |-> msg, type |-> type]

\* `return items if items else None`
OrNone(items, ctx) == IF Len(items) = 0 THEN ReturnedNone(ctx) ELSE Returned(items, ctx)

MockMap(m, ctx) ==
    CASE m.beh.map = "block" -> Returned(MockBlock(m), ctx)
      [] m.beh.map = "none" -> ReturnedNone(ctx)
      [] m.beh.map = "none_err" -> ReturnedNone(add_error(ctx, <<m.name, "no data">>))
      [] m.beh.map = "warn_raise" ->
            Raised(add_warning(ctx, <<m.name, "about to fail">>), "boom", "KeyError")
      [] m.beh.map = "publish" ->
            Returned(MockBlock(m),
                     [ctx EXCEPT !.measurement_data = m.beh.typed,
                                 !.metadata = Update(@, m.beh.bag)])

Valid(ctx) == [outcome |-> "true", ctx |-> ctx, msg |-> "", type |-> ""]

Invalid(ctx) == [outcome |-> "false", ctx |-> ctx, msg |-> "", type |-> ""]

ValidateRaised(ctx, msg, type) == [outcome |-> "raise", ctx |-> ctx, msg |-> msg, type |-> type]

MockValidate(m, block, ctx) ==
    CASE m.beh.validate = "true" -> Valid(ctx)
      [] m.beh.validate = "false" -> Invalid(ctx)
      [] m.beh.validate = "false_err" -> Invalid(add_error(ctx, <<m.name, "is invalid">>))
      [] m.beh.validate = "raise" -> ValidateRaised(ctx, "bad block", "TypeError")

(***************************************************************************)
(* Values of the source record.  A number is a tagged value: a Python int, *)
(* a finite float, NaN, +/-Infinity (v is the sign), or a value that is    *)
(* not a number at all ("bad": a non-numeric string).  Text fields use ""  *)
(* for a missing or empty value (both are falsy).  A timestamp field holds *)
(* a datetime ("dt"), an ISO-8601 string ("iso"), a string that does not   *)
(* parse ("junk") or nothing ("none"); t is the instant in seconds.        *)
(***************************************************************************)
I(n) == [k |-> "int", v |-> n]

F(n) == [k |-> "float", v |-> n]

NaN == [k |-> "nan", v |-> 0]

PosInf == [k |-> "inf", v |-> 1]

Bad == [k |-> "bad", v |-> 0]

NegInf == [k |-> "inf", v |-> -1]

\* A string that float() parses, to the float n
Str(n) == [k |-> "str", v |-> n]

\* A scalar of a wrapped numeric type: its item() returns x
Wrapped(x) == [k |-> "item", v |-> x]

IsFinite(x) == x.k \in {"int", "float"}

NoTime == [kind |-> "none", t |-> 0]

\* Python truthiness of a mapping field that is None, {} or a non-empty dict
Truthy(m) == m.state = "map"

(***************************************************************************)
(* Python's built-in min/max over a list: keep the first element, replace  *)
(* it by a later one only when the comparison says so.  Every comparison   *)
(* with NaN is false; comparing a number with a non-number raises.         *)
(***************************************************************************)
PyLt(a, b) ==
    CASE a.k = "nan" \/ b.k = "nan" -> FALSE
      [] a.k = "inf" /\ b.k = "inf" -> a.v < b.v
      [] a.k = "inf" -> a.v < 0
      [] b.k = "inf" -> b.v > 0
      [] OTHER -> a.v < b.v

RECURSIVE PyMinFrom(_, _, _)
PyMinFrom(q, i, best) ==
    IF i > Len(q) THEN best
    ELSE PyMinFrom(q, i + 1, IF PyLt(q[i], best) THEN q[i] ELSE best)

PyMin(q) == PyMinFrom(q, 2, q[1])

RECURSIVE PyMaxFrom(_, _, _)
PyMaxFrom(q, i, best) ==
    IF i > Len(q) THEN best
    ELSE PyMaxFrom(q, i + 1, IF PyLt(best, q[i]) THEN q[i] ELSE best)

PyMax(q) == PyMaxFrom(q, 2, q[1])

\* float(x) of a number that converts
ToFloat(x) == IF x.k = "int" THEN F(x.v) ELSE x

\* abs(x) * 0.01 on floats: 1/100 of the magnitude, NaN and Infinity carried through
OnePercent(x) ==
    CASE x.k = "nan" -> NaN
      [] x.k = "inf" -> PosInf
      [] OTHER -> F((IF x.v < 0 THEN -x.v ELSE x.v) \div 100)

(***************************************************************************)
(* The source record (AssemblyResultProtocol, mappers/base.py): three      *)
(* optional mappings and two lists of strings.  `state` says whether a     *)
(* mapping is None ("null"), {} ("empty") or a non-empty dict ("map"); the *)
(* nested reflectivity.reflectivity mapping can also be a missing key      *)
(* ("absent").  The other fields are the keys the mappers read.            *)
(***************************************************************************)
NoNested ==
    [state |-> "absent", q |-> <<>>, r |-> <<>>, dr |-> <<>>, dq |-> <<>>,
     measurement_geometry |-> "", reduction_version |-> "", source_file |-> ""]

NoRefl ==
    [state |-> "null", created_at |-> NoTime, run_start |-> NoTime,
     facility |-> "", instrument_name |-> "", laboratory |-> "", probe |-> "",
     is_simulated |-> FALSE, technique |-> "", technique_description |-> "",
     sample_name |-> "", sample_description |-> "",
     experiment_identifier |-> "", data_source_id |-> "", experiment_title |-> "",
     acquired_timestamp |-> "",
     raw_file_path |-> "", reduced_file |-> "",
     parent_record_id |-> "", collection_id |-> "", doi |-> "",
     reflectivity |-> NoNested]

NoSample ==
    [state |-> "null", main_composition |-> "", description |-> "",
     sample_description |-> "", geometry |-> "", layers |-> <<>>,
     sample_file |-> "", sample_record_id |-> ""]

NoEnv ==
    [state |-> "null", ambient_medium |-> "", environment_description |-> "",
     temperature_value_kelvin |-> NoNum, magnetic_field_value_tesla |-> NoNum,
     electric_field_value_v_per_m |-> NoNum, pressure_value_pa |-> NoNum,
     humidity_value_percent |-> NoNum, ph_value |-> NoNum,
     environment_file |-> ""]

\* A non-empty reflectivity dict that carries only an id
IdRefl == [NoRefl EXCEPT !.state = "map"]

EmptySource ==
    [reflectivity |-> NoRefl, sample |-> NoSample, environment |-> NoEnv,
     warnings |-> <<>>, errors |-> <<>>]

(***************************************************************************)
(* TimestampsMapper (mappers/timestamps.py)                                *)
(***************************************************************************)
\* _normalize_datetime: a datetime or a parseable string keeps its instant
\* (a naive one is taken as UTC); anything else becomes the current time
_normalize_datetime(value, now) ==
    IF value.kind \in {"dt", "iso"} THEN value.t ELSE now

\* _format_iso: "%Y-%m-%dT%H:%M:%SZ" of the instant in UTC, whole seconds
_format_iso(t) == <<"utc", t \div 1000>>

\* A map() that gives up when there is no reflectivity model
TimestampsMap_needs_reflectivity(ctx, src, env) ==
    IF ~Truthy(src.reflectivity)
    THEN ReturnedNone(ctx)
    ELSE Returned([created_utc |-> _format_iso(ctx.created_utc)], ctx)

TimestampsMap(ctx, src, env) ==
    LET refl == src.reflectivity
        created_utc ==
            IF Truthy(refl) /\ refl.created_at.kind # "none"
            THEN _normalize_datetime(refl.created_at, env.now)
            ELSE ctx.created_utc
        base == [created_utc |-> _format_iso(created_utc)]
    IN  Returned(
            SetIf(Truthy(refl) /\ refl.run_start.kind # "none", base, "acquired_start_utc",
                  _format_iso(_normalize_datetime(refl.run_start, env.now))),
            WarnIf(Truthy(refl) /\ refl.run_start.kind = "none", ctx,
                   <<"run_start not found, acquired timestamps omitted">>))

TimestampsValidate(block, ctx) ==
    IF ~Has(block, "created_utc")
    THEN Invalid(add_error(ctx, <<"timestamps.created_utc is required">>))
    ELSE Valid(ctx)

(***************************************************************************)
(* AcquisitionSourceMapper (mappers/acquisition_source.py)                 *)
(***************************************************************************)
SourceTypes == {"facility", "laboratory", "computation", "literature", "database"}

DEFAULT_ENDSTATION == "reflectometer"

\* _build_facility_block: the facility dict and the context it leaves
_build_facility_block(ctx, refl) ==
    LET c1 == WarnIf(refl.facility = "", ctx,
                     <<"Facility name not found, using 'Unknown'">>)
        f1 == [site |-> IF refl.facility # "" THEN refl.facility ELSE "Unknown"]
        c2 == WarnIf(refl.instrument_name = "", c1,
                     <<"Instrument name not found for beamline">>)
        f2 == SetIf(refl.instrument_name # "", f1, "beamline", refl.instrument_name)
        f3 == Put(f2, "endstation", DEFAULT_ENDSTATION)
        c3 == [c2 EXCEPT !.metadata = SetIf(refl.laboratory # "", @, "organization",
                                            refl.laboratory)]
    IN  [facility |-> f3, ctx |-> c3]

\* result["facility"] = facility_info
WithFacility(fb) ==
    Returned(Put([source_type |-> "facility"], "facility", fb.facility), fb.ctx)

AcquisitionSourceMap(ctx, src) ==
    IF Truthy(src.reflectivity)
    THEN WithFacility(_build_facility_block(ctx, src.reflectivity))
    ELSE Returned([source_type |-> "facility"],
            add_warning(ctx, <<"No reflectivity data for acquisition_source mapping">>))

AcquisitionSourceValidate(block, ctx) ==
    IF ~Has(block, "source_type")
    THEN Invalid(add_error(ctx, <<"acquisition_source.source_type is required">>))
    ELSE IF block["source_type"] \notin SourceTypes
    THEN Invalid(add_error(ctx, <<"acquisition_source.source_type must be one of">>))
    ELSE Valid(ctx)

(***************************************************************************)
(* MeasurementMapper (mappers/measurement.py)                              *)
(***************************************************************************)
DEFAULT_Q_UNIT == "A^-1"

DEFAULT_R_UNIT == "dimensionless"

JsonNull == [k |-> "null", v |-> 0]

\* `if hasattr(value, "item"): value = value.item()`
item(x) == IF x.k = "item" THEN x.v ELSE x

\* _to_native_type after the unwrapping: ints stay, float() of a finite
\* float or of a string that parses is that float, NaN, Infinity and values
\* float() rejects become None
Native(value) ==
    CASE value.k = "int" -> value
      [] value.k = "float" -> value
      [] value.k = "str" -> F(value.v)
      [] OTHER -> JsonNull

\* _to_native_type
_to_native_type(x) == Native(item(x))

_ensure_native_types(values) == [i \in 1..Len(values) |-> _to_native_type(values[i])]

\* _build_processing: the processing dict and the context it leaves
_build_processing(refl_data, ctx) ==
    LET p1 == SetIf(refl_data.reduction_version # "", [type |-> "reduced_reflectivity"],
                    "software_version", refl_data.reduction_version)
        geometry == refl_data.measurement_geometry
    IN  [processing |-> SetIf(geometry # "", p1, "geometry", geometry),
         ctx |-> [ctx EXCEPT
                    !.measurement_data.measurement_geometry =
                        IF geometry # "" THEN geometry ELSE @,
                    !.metadata = SetIf(geometry # "", @, "measurement_geometry", geometry)]]

\* A channel whose values are sanitized for R only
Channel_only_R(name, unit, role, values) ==
    [name |-> name, unit |-> unit, role |-> role,
     values |-> IF name = "R" THEN _ensure_native_types(values) ELSE values]

Channel(name, unit, role, values) ==
    [name |-> name, unit |-> unit, role |-> role, values |-> _ensure_native_types(values)]

\* q statistics that take the first and the last element of q for its range
PublishQStats_first_last(ctx, q) ==
    [ctx EXCEPT !.measurement_data.q_min = ToFloat(q[1]),
                !.measurement_data.q_max = ToFloat(q[Len(q)]),
                !.measurement_data.n_points = I(Len(q)),
                !.metadata = Put(Put(Put(@, "q_min", ToFloat(q[1])),
                                     "q_max", ToFloat(q[Len(q)])),
                                 "n_points", I(Len(q)))]

\* The q statistics of _build_series: float(min(q)), float(max(q)), len(q)
\* written to measurement_data and to the metadata bag
PublishQStats(ctx, q) ==
    LET q_min == ToFloat(PyMin(q))
        q_max == ToFloat(PyMax(q))
        n_points == I(Len(q))
    IN  [ctx EXCEPT !.measurement_data.q_min = q_min,
                    !.measurement_data.q_max = q_max,
                    !.measurement_data.n_points = n_points,
                    !.metadata = Put(Put(Put(@, "q_min", q_min), "q_max", q_max),
                                     "n_points", n_points)]

PublishIf(cond, ctx, q) == IF cond THEN PublishQStats(ctx, q) ELSE ctx

\* A _build_series that also warns about a dr or dq that is absent
_build_series_warns_absent(q, r, dr, dq, ctx) ==
    LET ch1 == <<Channel("R", DEFAULT_R_UNIT, "primary_signal", r)>>
        ch2 == AppendIf(Len(dr) > 0 /\ Len(dr) = Len(r), ch1,
                        Channel("dR", DEFAULT_R_UNIT, "quality_monitor", dr))
        c2 == WarnIf(Len(dr) # Len(r), ctx,
                     <<"dR length doesn't match R length", Len(dr), Len(r)>>)
        ch3 == AppendIf(Len(dq) > 0 /\ Len(dq) = Len(q), ch2,
                        Channel("dQ", DEFAULT_Q_UNIT, "quality_monitor", dq))
        c3 == WarnIf(Len(dq) # Len(q), c2,
                     <<"dQ length doesn't match Q length", Len(dq), Len(q)>>)
        raised == \E i \in 1..Len(q) : q[i].k = "bad"
    IN  [raised |-> raised,
         series |-> [series_id |-> "reflectivity_profile",
                     independent_variables |->
                         <<[name |-> "q", unit |-> DEFAULT_Q_UNIT,
                            values |-> _ensure_native_types(q)]>>,
                     channels |-> ch3],
         ctx |-> PublishIf(~raised /\ Len(q) > 0, c3, q)]

\* _build_series: [raised, series, ctx].  min(q)/float() raise on a q that
\* holds a non-number, after the channels were built and the length
\* warnings recorded.
_build_series(q, r, dr, dq, ctx) ==
    LET ch1 == <<Channel("R", DEFAULT_R_UNIT, "primary_signal", r)>>
        ch2 == AppendIf(Len(dr) > 0 /\ Len(dr) = Len(r), ch1,
                        Channel("dR", DEFAULT_R_UNIT, "quality_monitor", dr))
        c2 == WarnIf(Len(dr) > 0 /\ Len(dr) # Len(r), ctx,
                     <<"dR length doesn't match R length", Len(dr), Len(r)>>)
        ch3 == AppendIf(Len(dq) > 0 /\ Len(dq) = Len(q), ch2,
                        Channel("dQ", DEFAULT_Q_UNIT, "quality_monitor", dq))
        c3 == WarnIf(Len(dq) > 0 /\ Len(dq) # Len(q), c2,
                     <<"dQ length doesn't match Q length", Len(dq), Len(q)>>)
        raised == \E i \in 1..Len(q) : q[i].k = "bad"
    IN  [raised |-> raised,
         series |-> [series_id |-> "reflectivity_profile",
                     independent_variables |->
                         <<[name |-> "q", unit |-> DEFAULT_Q_UNIT,
                            values |-> _ensure_native_types(q)]>>,
                     channels |-> ch3],
         ctx |-> PublishIf(~raised /\ Len(q) > 0, c3, q)]

FirstThree(msgs) == SubSeq(msgs, 1, IF Len(msgs) < 3 THEN Len(msgs) ELSE 3)

\* _build_qc: from the warnings/errors of the assembly result
_build_qc(src) ==
    IF Len(src.errors) > 0
    THEN [status |-> "invalid", evidence |-> <<"Assembly errors", FirstThree(src.errors)>>]
    ELSE IF Len(src.warnings) > 0
    THEN [status |-> "suspect", evidence |-> <<"Assembly warnings", FirstThree(src.warnings)>>]
    ELSE [status |-> "valid", evidence |-> <<"Data passed assembly validation.", <<>>>>]

\* The block built from the three parts, or the exception _build_series let out
MeasurementResult(processing, sr, src) ==
    IF sr.raised
    THEN Raised(sr.ctx, "could not convert to float", "TypeError")
    ELSE Returned([processing |-> processing, series |-> <<sr.series>>,
                   qc |-> _build_qc(src)],
                  sr.ctx)

MeasurementBlock(pr, refl_data, src) ==
    MeasurementResult(pr.processing,
                      _build_series(refl_data.q, refl_data.r, refl_data.dr,
                                    refl_data.dq, pr.ctx),
                      src)

MeasurementMap(ctx, src) ==
    LET refl == src.reflectivity
        refl_data == refl.reflectivity
    IN  IF ~Truthy(refl)
        THEN ReturnedNone(add_warning(ctx, <<"No reflectivity data for measurement mapping">>))
        ELSE IF ~Truthy(refl_data)
        THEN ReturnedNone(add_warning(ctx, <<"No reflectivity.reflectivity nested data">>))
        ELSE IF Len(refl_data.q) = 0 \/ Len(refl_data.r) = 0
        THEN ReturnedNone(add_error(ctx, <<"Missing q or r arrays in reflectivity data">>))
        ELSE MeasurementBlock(_build_processing(refl_data, ctx), refl_data, src)

MeasurementValidate(block, ctx) ==
    IF ~Has(block, "series")
    THEN Invalid(add_error(ctx, <<"measurement.series is required">>))
    ELSE IF ~Has(block, "qc")
    THEN Invalid(add_error(ctx, <<"measurement.qc is required">>))
    ELSE IF Len(block["series"]) = 0
    THEN Invalid(add_error(ctx, <<"measurement.series must have at least one series">>))
    ELSE LET first_series == block["series"][1]
         IN  IF ~Has(first_series, "series_id")
             THEN Invalid(add_error(ctx, <<"series.series_id is required">>))
             ELSE IF ~Has(first_series, "independent_variables")
             THEN Invalid(add_error(ctx, <<"series.independent_variables is required">>))
             ELSE IF ~Has(first_series, "channels")
             THEN Invalid(add_error(ctx, <<"series.channels is required">>))
             ELSE IF \E i \in 1..Len(first_series["channels"]) :
                        ~({"name", "unit", "role"} \subseteq DOMAIN first_series["channels"][i])
             THEN Invalid(add_error(ctx, <<"channels[i] field is required">>))
             ELSE Valid(ctx)

(***************************************************************************)
(* DescriptorsMapper (mappers/descriptors.py)                              *)
(***************************************************************************)
DescriptorKinds == {"absolute", "differential", "categorical", "similarity", "model"}

\* _estimate_q_uncertainty: 1% of |q|
_estimate_q_uncertainty(q_value) == [sigma |-> OnePercent(q_value), unit |-> DEFAULT_Q_UNIT]

QDescriptor(name, value) ==
    [name |-> name, kind |-> "absolute", source |-> "computed", value |-> value,
     unit |-> DEFAULT_Q_UNIT, uncertainty |-> _estimate_q_uncertainty(value)]

\* strftime("%Y-%m-%d") of the creation time
DateLabel(t) == <<"date", t \div 1000>>

\* The geometry descriptor: known from the metadata bag, or undetermined
GeometryDescriptor(geometry) ==
    IF geometry # ""
    THEN [name |-> "measurement_geometry", kind |-> "categorical",
          source |-> "model", value |-> geometry,
          uncertainty |-> [confidence |-> 95]]
    ELSE [name |-> "measurement_geometry", kind |-> "categorical",
          source |-> "unknown", value |-> "undetermined",
          uncertainty |-> [confidence |-> 0]]

\* `if not descriptors:` the placeholder descriptor
OrPlaceholder(descriptors) ==
    IF Len(descriptors) = 0
    THEN <<[name |-> "conversion_status", kind |-> "categorical",
            source |-> "system", value |-> "minimal_data",
            uncertainty |-> [confidence |-> 100]]>>
    ELSE descriptors

\* The descriptors list before the placeholder check
Descriptors(ctx, src) ==
    LET mdata == ctx.measurement_data
        typed == mdata.q_min.k # "none" \/ mdata.q_max.k # "none" \/ mdata.n_points.k # "none"
        q_min == IF typed THEN mdata.q_min ELSE Get(ctx.metadata, "q_min", NoNum)
        q_max == IF typed THEN mdata.q_max ELSE Get(ctx.metadata, "q_max", NoNum)
        n_points == IF typed THEN mdata.n_points ELSE Get(ctx.metadata, "n_points", NoNum)
        d1 == AppendIf(q_min.k # "none", <<>>, QDescriptor("q_range_min", q_min))
        d2 == AppendIf(q_max.k # "none", d1, QDescriptor("q_range_max", q_max))
        d3 == AppendIf(n_points.k # "none", d2,
                       [name |-> "total_points", kind |-> "absolute",
                        source |-> "computed", value |-> n_points, unit |-> "count",
                        uncertainty |-> [sigma |-> I(0), unit |-> "count"]])
        d4 == Append(d3, GeometryDescriptor(Get(ctx.metadata, "measurement_geometry", "")))
    IN  AppendIf(Truthy(src.reflectivity) /\ src.reflectivity.probe # "", d4,
                 [name |-> "probe_type", kind |-> "categorical",
                  source |-> "metadata", value |-> src.reflectivity.probe,
                  uncertainty |-> [confidence |-> 100]])

DescriptorsBlock(ctx, descriptors) ==
    Returned([policy |-> [requires_at_least_one |-> TRUE],
              outputs |-> <<[label |-> <<"automated_extraction", DateLabel(ctx.created_utc)>>,
                             generated_utc |-> <<"utc", ctx.created_utc \div 1000>>,
                             generated_by |-> [agent |-> "nr-isaac-format",
                                               version |-> "0.1.0"],
                             descriptors |-> OrPlaceholder(descriptors)]>>],
             WarnIf(Len(descriptors) = 0,
                    WarnIf(Get(ctx.metadata, "measurement_geometry", "") = "", ctx,
                           <<"Measurement geometry could not be determined">>),
                    <<"No descriptors could be generated">>))

DescriptorsMap(ctx, src) == DescriptorsBlock(ctx, Descriptors(ctx, src))

DescriptorsValidate(block, ctx) ==
    IF ~Has(block, "outputs")
    THEN Invalid(add_error(ctx, <<"descriptors.outputs is required">>))
    ELSE IF Len(block["outputs"]) = 0
    THEN Invalid(add_error(ctx, <<"descriptors.outputs must have at least one output">>))
    ELSE LET first_output == block["outputs"][1]
             descriptors == first_output["descriptors"]
         IN  IF ~({"label", "generated_utc", "generated_by", "descriptors"}
                     \subseteq DOMAIN first_output)
             THEN Invalid(add_error(ctx, <<"outputs[0] field is required">>))
             ELSE IF Len(descriptors) = 0
             THEN Invalid(add_error(ctx,
                     <<"outputs[0].descriptors must have at least one descriptor">>))
             ELSE IF \E i \in 1..Len(descriptors) :
                        ~({"name", "kind", "source", "value", "uncertainty"}
                            \subseteq DOMAIN descriptors[i])
             THEN Invalid(add_error(ctx, <<"descriptors[i] field is required">>))
             ELSE IF \E i \in 1..Len(descriptors) : descriptors[i].kind \notin DescriptorKinds
             THEN Invalid(add_error(ctx, <<"descriptors[i].kind must be one of">>))
             ELSE Valid(ctx)

(***************************************************************************)
(* SampleMapper (mappers/sample.py).  A layer is a dict with a material    *)
(* and a thickness (whole angstroms, or a non-number), or an entry that is *)
(* not a dict at all (kind "str").                                         *)
(***************************************************************************)
SampleForms == {"thin_film", "bulk", "powder", "solution", "gas"}

Layer(material, thickness) == [kind |-> "dict", material |-> material, thickness |-> thickness]

NotALayer == [kind |-> "str", material |-> "", thickness |-> I(0)]

\* _extract_sample_from_reflectivity: a sample dict, or None when nothing was found
_extract_sample_from_reflectivity(refl) ==
    [NoSample EXCEPT
        !.state = IF refl.sample_name # "" \/ refl.sample_description # ""
                  THEN "map" ELSE "null",
        !.main_composition = refl.sample_name,
        !.sample_description = refl.sample_description]

\* a or b on two text fields
Or(a, b) == IF a # "" THEN a ELSE b

_build_material(sample, ctx) ==
    LET main_comp == sample.main_composition
        m1 == [name |-> IF main_comp # "" THEN main_comp ELSE "Unknown",
               formula |-> IF main_comp # "" THEN main_comp ELSE "Unknown",
               provenance |-> "model_fitted"]
        description == Or(sample.description, sample.sample_description)
    IN  [material |-> IF description # "" THEN Put(m1, "notes", description) ELSE m1,
         ctx |-> IF main_comp # "" THEN ctx
                 ELSE add_warning(ctx, <<"Sample main_composition not found">>)]

_determine_sample_form(sample) ==
    IF sample.geometry \in SampleForms THEN sample.geometry ELSE "thin_film"

\* the layers the composition loop counts: dicts of nonzero thickness
Counted(layers) == {i \in 1..Len(layers) : layers[i].thickness.v # 0}

RECURSIVE SumThickness(_, _)
SumThickness(layers, S) ==
    IF S = {} THEN 0
    ELSE LET i == CHOOSE x \in S : TRUE
         IN  layers[i].thickness.v + SumThickness(layers, S \ {i})

MaterialOf(layer) == IF layer.material # "" THEN layer.material ELSE "unknown"

\* round(x, 4) of num/den, in units of 1e-4, ties to even
Round4(num, den) ==
    LET scaled == num * 10000
        fl == scaled \div den
        rem2 == 2 * (scaled - fl * den)
    IN  IF rem2 > den \/ (rem2 = den /\ fl % 2 = 1) THEN fl + 1 ELSE fl

\* _build_composition raises on an entry that is not a dict and on a
\* thickness that is not a number
CompositionRaises(layers) ==
    \E i \in 1..Len(layers) : layers[i].kind # "dict" \/ layers[i].thickness.k = "bad"

\* One of the layers S has the thickness float("inf")
Infinite(layers, S) == \E i \in S : layers[i].thickness = PosInf

\* total_thickness after the loop: 0.0 plus the thicknesses of the counted layers
TotalThickness(layers, S) ==
    IF Infinite(layers, S) THEN PosInf ELSE F(SumThickness(layers, S))

\* The counted layers of a material
OfMaterial(layers, S, m) == {i \in S : MaterialOf(layers[i]) = m}

\* round(thickness / total_thickness, 4) of a material, in units of 1e-4:
\* inf / inf is NaN, a finite thickness over inf is 0.0
Fraction(layers, S, mine) ==
    IF Infinite(layers, S)
    THEN IF Infinite(layers, mine) THEN NaN ELSE F(0)
    ELSE F(Round4(SumThickness(layers, mine), SumThickness(layers, S)))

\* _build_composition: [composition (a dict, empty for None), ctx]
_build_composition(sample, ctx) ==
    LET layers == sample.layers
        counted == Counted(layers)
        materials == {MaterialOf(layers[i]) : i \in counted}
    IN  IF Len(layers) = 0 \/ TotalThickness(layers, counted).v <= 0
        THEN [composition |-> EmptyDict, ctx |-> ctx]
        ELSE [composition |->
                  [m \in materials |-> Fraction(layers, counted, OfMaterial(layers, counted, m))],
              ctx |-> [ctx EXCEPT !.metadata = Put(@, "total_thickness_A",
                                                   TotalThickness(layers, counted))]]

\* _build_geometry: a dict, empty for None
_build_geometry(sample, ctx) ==
    LET total_thickness == Get(ctx.metadata, "total_thickness_A", NoNum)
        g1 == IF total_thickness.v # 0
              THEN [total_thickness_angstrom |-> total_thickness] ELSE EmptyDict
        film_layers == {i \in 1..Len(sample.layers) : sample.layers[i].thickness.v > 0}
    IN  IF film_layers # {} THEN Put(g1, "layer_count", Cardinality(film_layers)) ELSE g1

\* The result dict from sample_form to geometry, given the composition
SampleResult(sample, material, cp) ==
    LET r0 == [sample_form |-> _determine_sample_form(sample)]
        r1 == SetIf(Get(material, "material_name", "") # "Unknown" \/ Has(material, "notes"),
                    r0, "material", material)
        r2 == SetIf(Or(sample.sample_description, sample.description) # "", r1,
                    "sample_description", Or(sample.sample_description, sample.description))
        r3 == SetIf(DOMAIN cp.composition # {}, r2, "composition", cp.composition)
    IN  SetIf(DOMAIN _build_geometry(sample, cp.ctx) # {}, r3, "geometry",
              _build_geometry(sample, cp.ctx))

\* `if result == {"sample_form": "thin_film"}: return None`
UnlessBare(res, ctx) ==
    IF DOMAIN res = {"sample_form"} /\ res["sample_form"] = "thin_film"
    THEN ReturnedNone(ctx)
    ELSE Returned(res, ctx)

SampleFrom(sample, mt) ==
    IF CompositionRaises(sample.layers)
    THEN Raised(mt.ctx, "bad layer entry", "AttributeError")
    ELSE UnlessBare(SampleResult(sample, mt.material, _build_composition(sample, mt.ctx)),
                    _build_composition(sample, mt.ctx).ctx)

\* The sample record, or what the reflectivity record says about the sample
SampleOf(src) ==
    IF ~Truthy(src.sample) /\ Truthy(src.reflectivity)
    THEN _extract_sample_from_reflectivity(src.reflectivity)
    ELSE src.sample

SampleMap(ctx, src) ==
    IF ~Truthy(SampleOf(src)) THEN ReturnedNone(ctx)
    ELSE SampleFrom(SampleOf(src), _build_material(SampleOf(src), ctx))

SampleValidate(block, ctx) ==
    IF ~Has(block, "sample_form")
    THEN Invalid(add_error(ctx, <<"sample.sample_form is required">>))
    ELSE Valid(ctx)

(***************************************************************************)
(* SystemMapper (mappers/system.py)                                        *)
(***************************************************************************)
SystemDomains == {"experimental", "computational"}

PutIf(f, k, v) == IF v # "" THEN Put(f, k, v) ELSE f

\* _build_facility: a dict, empty for None
_build_facility(refl, ctx) ==
    LET f1 == PutIf(EmptyDict, "facility_name", refl.facility)
        f2 == PutIf(f1, "organization",
                    Or(refl.laboratory, Get(ctx.metadata, "organization", "")))
    IN  PutIf(f2, "beamline", refl.instrument_name)

\* _build_instrument: a dict, empty for None
_build_instrument(refl) ==
    IF refl.instrument_name = "" THEN EmptyDict
    ELSE PutIf([instrument_type |-> "beamline_endstation",
                instrument_name |-> refl.instrument_name],
               "vendor_or_project", refl.laboratory)

_build_configuration(refl) ==
    LET refl_data == refl.reflectivity
        c1 == PutIf(EmptyDict, "measurement_geometry", refl_data.measurement_geometry)
        c2 == PutIf(c1, "probe", refl.probe)
        c3 == PutIf(c2, "technique", refl.technique)
        c4 == PutIf(c3, "technique_description", refl.technique_description)
    IN  PutIf(c4, "reduction_software", refl_data.reduction_version)

\* refl.get("reflectivity", {}) is None when the key holds None, and
\* None.get raises
NestedIsNone(refl) == refl.reflectivity.state = "null"

SystemMap(ctx, src) ==
    LET refl == src.reflectivity
    IN  IF ~Truthy(refl) THEN ReturnedNone(ctx)
        ELSE IF NestedIsNone(refl)
        THEN Raised(ctx, "'NoneType' object has no attribute 'get'", "AttributeError")
        ELSE
        LET r0 == [domain |-> IF refl.is_simulated THEN "computational" ELSE "experimental"]
            r1 == SetIf(DOMAIN _build_facility(refl, ctx) # {}, r0, "facility",
                        _build_facility(refl, ctx))
            r2 == SetIf(DOMAIN _build_instrument(refl) # {}, r1, "instrument",
                        _build_instrument(refl))
        IN  Returned(Put(r2, "configuration", _build_configuration(refl)), ctx)

SystemValidate(block, ctx) ==
    IF ~Has(block, "domain")
    THEN Invalid(add_error(ctx, <<"system.domain is required">>))
    ELSE IF block["domain"] \notin SystemDomains
    THEN Invalid(add_error(ctx, <<"system.domain must be one of">>))
    ELSE IF ~Has(block, "configuration")
    THEN Invalid(add_error(ctx, <<"system.configuration is required">>))
    ELSE Valid(ctx)

(***************************************************************************)
(* ContextMapper (mappers/context.py)                                      *)
(***************************************************************************)
_get_environment_string(src) ==
    IF Truthy(src.environment)
    THEN Or(src.environment.ambient_medium, src.environment.environment_description)
    ELSE ""

\* _get_temperature: float(temp) when the field is present
_get_temperature(src) ==
    IF Truthy(src.environment) THEN ToFloat(src.environment.temperature_value_kelvin)
    ELSE NoNum

_build_experiment(src) ==
    LET refl == src.reflectivity
        e1 == PutIf(EmptyDict, "experiment_id",
                    Or(refl.experiment_identifier, refl.data_source_id))
        e2 == SetIf(refl.experiment_title # "" \/ refl.sample_name # "", e1,
                    "experiment_title",
                    IF refl.experiment_title # "" THEN <<refl.experiment_title>>
                    ELSE <<"Measurement of", refl.sample_name>>)
    IN  IF Truthy(refl) THEN PutIf(e2, "experiment_date", refl.acquired_timestamp)
        ELSE EmptyDict

\* _build_notes: the fragments that "; ".join puts together, empty for None
_build_notes(src) ==
    LET refl == src.reflectivity
        env == src.environment
        n1 == AppendIf(Truthy(refl) /\ refl.sample_description # "", <<>>,
                       <<"Sample", refl.sample_description>>)
        n2 == AppendIf(Truthy(refl) /\ refl.technique_description # "", n1,
                       <<"Technique", refl.technique_description>>)
    IN  AppendIf(Truthy(env) /\ env.environment_description # "", n2,
                 <<"Environment", env.environment_description>>)

ExtraFields ==
    << <<"magnetic_field_value_tesla", "magnetic_field_T">>,
       <<"electric_field_value_v_per_m", "electric_field_V_per_m">>,
       <<"pressure_value_pa", "pressure_Pa">>,
       <<"humidity_value_percent", "humidity_percent">>,
       <<"ph_value", "pH">> >>

\* _build_extra_conditions: a dict, empty for None
_build_extra_conditions(src) ==
    LET env == src.environment
        present == {i \in 1..Len(ExtraFields) : env[ExtraFields[i][1]].k # "none"}
        keyOf(k) == CHOOSE i \in present : ExtraFields[i][2] = k
    IN  IF ~Truthy(env) THEN EmptyDict
        ELSE [k \in {ExtraFields[i][2] : i \in present} |->
                 ToFloat(env[ExtraFields[keyOf(k)][1]])]

\* float() of a value that is not a number raises
FloatRaises(x) == x.k = "bad"

\* A required pair that takes the temperature only when it is truthy
RequiredPair_truthy(src) ==
    SetIf(_get_temperature(src).k # "none" /\ _get_temperature(src).v # 0,
          PutIf(EmptyDict, "environment", _get_environment_string(src)),
          "temperature_K", _get_temperature(src))

\* The two required fields, as far as the source has them
RequiredPair(src) ==
    SetIf(_get_temperature(src).k # "none",
          PutIf(EmptyDict, "environment", _get_environment_string(src)),
          "temperature_K", _get_temperature(src))

\* The optional fields added to the required pair
Enriched(pair, src) ==
    Update(SetIf(Len(_build_notes(src)) > 0, Update(pair, _build_experiment(src)),
                 "notes", _build_notes(src)),
           _build_extra_conditions(src))

ContextMap(ctx, src) ==
    LET env == src.environment
    IN  IF Truthy(env) /\ FloatRaises(env.temperature_value_kelvin)
        THEN Raised(ctx, "could not convert string to float", "ValueError")
        ELSE IF ~({"environment", "temperature_K"} \subseteq DOMAIN RequiredPair(src))
        THEN ReturnedNone(ctx)
        ELSE IF \E i \in 1..Len(ExtraFields) : FloatRaises(env[ExtraFields[i][1]])
        THEN Raised(ctx, "could not convert string to float", "ValueError")
        ELSE Returned(Enriched(RequiredPair(src), src), ctx)

ContextValidate(block, ctx) ==
    IF ~Has(block, "environment")
    THEN Invalid(add_error(ctx, <<"context.environment is required">>))
    ELSE IF ~Has(block, "temperature_K")
    THEN Invalid(add_error(ctx, <<"context.temperature_K is required">>))
    ELSE IF block["temperature_K"].k \notin {"int", "float", "nan", "inf"}
    THEN Invalid(add_error(ctx, <<"context.temperature_K must be a number">>))
    ELSE Valid(ctx)

(***************************************************************************)
(* AssetsMapper (mappers/assets.py).  The file system is the environment:  *)
(* env.readable is the set of paths that are readable regular files when   *)
(* the hash is taken.                                                      *)
(***************************************************************************)
VALID_CONTENT_ROLES ==
    {"raw_data_pointer", "reduction_product", "processing_recipe", "input_structure",
     "metadata_snapshot", "supplementary_image", "other"}

HexDigits == <<"0", "1", "2", "3", "4", "5", "6", "7", "8", "9",
               "a", "b", "c", "d", "e", "f">>

\* The decimal digits of n, most significant first
RECURSIVE Decimal(_)
Decimal(n) == IF n < 10 THEN <<HexDigits[n + 1]>>
              ELSE Decimal(n \div 10) \o <<HexDigits[(n % 10) + 1]>>

\* f"{n:03d}": the decimal digits, zeros in front up to a width of three
Format03d(n) ==
    [i \in 1..(3 - Len(Decimal(n))) |-> "0"] \o Decimal(n)

\* f"{record_id}-A{asset_num:03d}"
AssetId(record_id, asset_num) == <<record_id, "-A", Format03d(asset_num)>>

\* The path strings of the sources; a string is its position in this list to
\* encode() and to the file system
PathStrings ==
    << "/data/raw.nxs", "/data/reduced.txt", "/data/model.json",
       "file:///data/sample.json", "s3://bucket/env.json", "/data/sample.json" >>

\* path.encode(): the bytes of the string
encode(path) == CHOOSE i \in 1..Len(PathStrings) : PathStrings[i] = path

\* The bytes of the file at a path
FileBytes(file_path) == 100 + encode(file_path)

\* hashlib.sha256(data).hexdigest(): 64 lowercase hex digits that are a fixed
\* function of the data (a stand-in for SHA-256 with the same shape)
hexdigest(data) ==
    [i \in 1..64 |-> HexDigits[(((data + 3) * (i + 5) + i * i + (data \div 7)) % 16) + 1]]

\* path.startswith("file://")
StartsWithFileScheme(path) == path = "file:///data/sample.json"

\* path[7:] of such a path
WithoutFileScheme(path) ==
    CASE path = "file:///data/sample.json" -> "/data/sample.json"
      [] OTHER -> path

\* file_path: the path with a leading file:// removed
FilePathOf(path) == IF StartsWithFileScheme(path) THEN WithoutFileScheme(path) ELSE path

\* "000000" + path_hash[6:]
Placeholder(path_hash) == <<"0", "0", "0", "0", "0", "0">> \o SubSeq(path_hash, 7, Len(path_hash))

\* A _compute_sha256 that hashes the path also for a file it could read
_compute_sha256_never_reads(path, env) == Placeholder(hexdigest(encode(path)))

\* _compute_sha256: the digest of the file's bytes, or the "000000" placeholder
\* built from the hash of the path string
_compute_sha256(path, env) ==
    IF FilePathOf(path) \in env.readable THEN hexdigest(FileBytes(FilePathOf(path)))
    ELSE Placeholder(hexdigest(encode(path)))

_build_asset(path, content_role, asset_num, record_id, description, env) ==
    [asset_id |-> AssetId(record_id, asset_num), content_role |-> content_role,
     uri |-> <<"uri", path>>, sha256 |-> _compute_sha256(path, env),
     description |-> description]

\* A reference found in the reflectivity record itself
FromReflectivity(ref) ==
    ref[3] \in {"Raw measurement data file", "Reduced reflectivity data"}

\* The file references in discovery order, as <<path, role, description>>
FileRefs(src) ==
    LET refl == src.reflectivity
        raw == IF Truthy(refl) /\ refl.raw_file_path # ""
               THEN <<<<refl.raw_file_path, "raw_data_pointer", "Raw measurement data file">>>>
               ELSE <<>>
        red == IF Truthy(refl) /\ refl.reduced_file # ""
               THEN <<<<refl.reduced_file, "reduction_product", "Reduced reflectivity data">>>>
               ELSE <<>>
        source_file == refl.reflectivity.source_file
        nested == IF Truthy(refl) /\ source_file # ""
                     /\ source_file \notin {refl.raw_file_path, refl.reduced_file}
                  THEN <<<<source_file, "reduction_product", "Reflectivity data source file">>>>
                  ELSE <<>>
        smp == IF Truthy(src.sample) /\ src.sample.sample_file # ""
               THEN <<<<src.sample.sample_file, "metadata_snapshot", "Sample definition file">>>>
               ELSE <<>>
        envf == IF Truthy(src.environment) /\ src.environment.environment_file # ""
                THEN <<<<src.environment.environment_file, "metadata_snapshot",
                         "Environment configuration file">>>>
                ELSE <<>>
    IN  raw \o red \o nested \o smp \o envf

\* Assets numbered within their content role
Assets_numbered_by_role(refs, record_id, env) ==
    [n \in 1..Len(refs) |->
        _build_asset(refs[n][1], refs[n][2],
                     Cardinality({j \in 1..n : refs[j][2] = refs[n][2]}),
                     record_id, refs[n][3], env)]

\* One asset per reference, numbered from 1
Assets(refs, record_id, env) ==
    [n \in 1..Len(refs) |->
        _build_asset(refs[n][1], refs[n][2], n, record_id, refs[n][3], env)]

\* The files a map() call of the mapper read to the end
Opened(m, src, env) ==
    IF m.cls # "AssetsMapper" THEN {}
    ELSE { FilePathOf(FileRefs(src)[i][1]) :
             i \in 1..(IF Truthy(src.reflectivity) /\ NestedIsNone(src.reflectivity)
                       THEN Len(SelectSeq(FileRefs(src), FromReflectivity))
                       ELSE Len(FileRefs(src))) }
         \cap env.readable

AssetsMap(ctx, src, env) ==
    IF Truthy(src.reflectivity) /\ NestedIsNone(src.reflectivity)
    THEN Raised(ctx, "'NoneType' object has no attribute 'get'", "AttributeError")
    ELSE OrNone(Assets(FileRefs(src), ctx.record_id, env), ctx)

AssetsValidate(block, ctx) ==
    IF \E i \in 1..Len(block) :
          \/ ~({"asset_id", "content_role", "uri", "sha256"} \subseteq DOMAIN block[i])
          \/ block[i].content_role \notin VALID_CONTENT_ROLES
    THEN Invalid(add_error(ctx, <<"assets[i] field is required">>))
    ELSE Valid(ctx)

(***************************************************************************)
(* LinksMapper (mappers/links.py)                                          *)
(***************************************************************************)
LinkTypes == {"derived_from", "part_of", "related_to", "supersedes", "cites", "references"}

Link(type, target, description) ==
    [link_type |-> type, target_record_id |-> target, description |-> description]

LinksMap(ctx, src) ==
    LET refl == src.reflectivity
        l1 == AppendIf(Truthy(refl) /\ refl.parent_record_id # "", <<>>,
                       Link("derived_from", refl.parent_record_id,
                            "Derived from source record"))
        l2 == AppendIf(Truthy(refl) /\ refl.collection_id # "", l1,
                       Link("part_of", refl.collection_id, "Part of measurement series"))
        l3 == AppendIf(Truthy(refl) /\ refl.doi # "", l2,
                       Link("cites", refl.doi, "Associated publication DOI"))
    IN  OrNone(AppendIf(Truthy(src.sample) /\ src.sample.sample_record_id # "", l3,
                        Link("related_to", src.sample.sample_record_id,
                             "Related sample record")),
               ctx)

RECURSIVE LinksValidateFrom(_, _, _)
LinksValidateFrom(block, i, ctx) ==
    IF i > Len(block) THEN Valid(ctx)
    ELSE IF ~Has(block[i], "link_type")
    THEN Invalid(add_error(ctx, <<"links[i].link_type is required">>))
    ELSE LET c1 == IF block[i].link_type \notin LinkTypes
                   THEN add_warning(ctx, <<"links[i].link_type may not be recognized">>)
                   ELSE ctx
         IN  IF ~Has(block[i], "target_record_id")
             THEN Invalid(add_error(c1, <<"links[i].target_record_id is required">>))
             ELSE LinksValidateFrom(block, i + 1, c1)

LinksValidate(block, ctx) == LinksValidateFrom(block, 1, ctx)

(***************************************************************************)
(* The mapper list (converter.py)                                          *)
(***************************************************************************)
DefaultMapper(cls, name) == [cls |-> cls, name |-> name, beh |-> [map |-> "code"]]

\* The nine mappers with Descriptors ahead of Measurement
_default_mappers_descriptors_first ==
    << DefaultMapper("TimestampsMapper", "timestamps"),
       DefaultMapper("AcquisitionSourceMapper", "acquisition_source"),
       DefaultMapper("DescriptorsMapper", "descriptors"),
       DefaultMapper("MeasurementMapper", "measurement"),
       DefaultMapper("SampleMapper", "sample"),
       DefaultMapper("SystemMapper", "system"),
       DefaultMapper("ContextMapper", "context"),
       DefaultMapper("AssetsMapper", "assets"),
       DefaultMapper("LinksMapper", "links") >>

\* _default_mappers: the nine mappers in processing order
_default_mappers ==
    << DefaultMapper("TimestampsMapper", "timestamps"),
       DefaultMapper("AcquisitionSourceMapper", "acquisition_source"),
       DefaultMapper("MeasurementMapper", "measurement"),
       DefaultMapper("DescriptorsMapper", "descriptors"),
       DefaultMapper("SampleMapper", "sample"),
       DefaultMapper("SystemMapper", "system"),
       DefaultMapper("ContextMapper", "context"),
       DefaultMapper("AssetsMapper", "assets"),
       DefaultMapper("LinksMapper", "links") >>

\* mapper.is_required()
is_required(m) ==
    IF m.cls = "Mock" THEN m.beh.required
    ELSE m.cls \in {"TimestampsMapper", "AcquisitionSourceMapper", "DescriptorsMapper"}

\* mapper.map(context)
Map(m, ctx, src, env) ==
    CASE m.cls = "Mock" -> MockMap(m, ctx)
      [] m.cls = "TimestampsMapper" -> TimestampsMap(ctx, src, env)
      [] m.cls = "AcquisitionSourceMapper" -> AcquisitionSourceMap(ctx, src)
      [] m.cls = "MeasurementMapper" -> MeasurementMap(ctx, src)
      [] m.cls = "DescriptorsMapper" -> DescriptorsMap(ctx, src)
      [] m.cls = "SampleMapper" -> SampleMap(ctx, src)
      [] m.cls = "SystemMapper" -> SystemMap(ctx, src)
      [] m.cls = "ContextMapper" -> ContextMap(ctx, src)
      [] m.cls = "AssetsMapper" -> AssetsMap(ctx, src, env)
      [] m.cls = "LinksMapper" -> LinksMap(ctx, src)

\* mapper.validate(block, context)
Validate(m, block, ctx) ==
    CASE m.cls = "Mock" -> MockValidate(m, block, ctx)
      [] m.cls = "TimestampsMapper" -> TimestampsValidate(block, ctx)
      [] m.cls = "AcquisitionSourceMapper" -> AcquisitionSourceValidate(block, ctx)
      [] m.cls = "MeasurementMapper" -> MeasurementValidate(block, ctx)
      [] m.cls = "DescriptorsMapper" -> DescriptorsValidate(block, ctx)
      [] m.cls = "SampleMapper" -> SampleValidate(block, ctx)
      [] m.cls = "SystemMapper" -> SystemValidate(block, ctx)
      [] m.cls = "ContextMapper" -> ContextValidate(block, ctx)
      [] m.cls = "AssetsMapper" -> AssetsValidate(block, ctx)
      [] m.cls = "LinksMapper" -> LinksValidate(block, ctx)

(***************************************************************************)
(* Identifiers and clocks.  A ULID is its 48-bit millisecond time          *)
(* component and its random component; a caller-supplied id is any string. *)
(***************************************************************************)
Times == {1500, 2000}

Randoms == {0, 1}

NoTimestamp == -1

NoId == [time |-> -1, rand |-> -1]

CallerIds == {[time |-> 0, rand |-> 77]}

\* generate_ulid(timestamp): ULID.from_datetime draws the random component
generate_ulid(timestamp, rnd) == [time |-> timestamp, rand |-> rnd]

\* The characters validate_ulid accepts (Crockford base32: no I, L, O, U)
Crockford ==
    << "0", "1", "2", "3", "4", "5", "6", "7", "8", "9", "A", "B", "C", "D", "E", "F",
       "G", "H", "J", "K", "M", "N", "P", "Q", "R", "S", "T", "V", "W", "X", "Y", "Z" >>

\* n in base 32, most significant character first, in a field of the width
RECURSIVE Base32(_, _)
Base32(n, width) ==
    IF width = 0 THEN <<>>
    ELSE Base32(n \div 32, width - 1) \o <<Crockford[(n % 32) + 1]>>

\* str(ulid_obj): ten characters for the 48-bit millisecond timestamp, then
\* sixteen for the 80 random bits
ulid_str(u) == Base32(u.time, 10) \o Base32(u.rand, 16)

LowerCase ==
    << "a", "b", "c", "d", "e", "f", "g", "h", "i", "j", "k", "l", "m",
       "n", "o", "p", "q", "r", "s", "t", "u", "v", "w", "x", "y", "z" >>

UpperCase ==
    << "A", "B", "C", "D", "E", "F", "G", "H", "I", "J", "K", "L", "M",
       "N", "O", "P", "Q", "R", "S", "T", "U", "V", "W", "X", "Y", "Z" >>

\* str.upper(): a lower-case letter becomes its upper-case letter
upper(s) ==
    [i \in 1..Len(s) |->
        IF \E j \in 1..Len(LowerCase) : LowerCase[j] = s[i]
        THEN UpperCase[CHOOSE j \in 1..Len(LowerCase) : LowerCase[j] = s[i]]
        ELSE s[i]]

\* The string generate_ulid returns: str(ulid_obj).upper()
ulid_string(u) == upper(ulid_str(u))

\* A validate_ulid after the docstring's pattern ^[0-9A-Z]{26}$
validate_ulid_alnum(value) ==
    /\ Len(value) = 26
    /\ \A i \in 1..Len(value) : value[i] \in Range(Crockford) \cup Range(UpperCase)

\* validate_ulid: 26 characters, each of the alphabet
validate_ulid(value) ==
    /\ Len(value) = 26
    /\ \A i \in 1..Len(value) : value[i] \in Range(Crockford)

ISAAC_VERSION == "1.0"

RootFields == {"record_id", "isaac_record_version", "record_type", "record_domain"}

(***************************************************************************)
(* Inputs of convert()                                                     *)
(***************************************************************************)
SeqsUpTo(S, n) == UNION {[1..k -> S] : k \in 0..n}

QValues == {F(100), F(300), I(200), NaN, Bad}

QArrays == SeqsUpTo(QValues, MaxLen)

RArrays == {[i \in 1..k |-> F(100)] : k \in 0..MaxLen}

Nested(q, r, geometry) ==
    [NoNested EXCEPT !.state = "map", !.q = q, !.r = r, !.measurement_geometry = geometry]

\* q arrays with an infinity
InfiniteQ == {<<PosInf>>, <<F(100), PosInf>>, <<NegInf, F(100)>>, <<NaN, NegInf>>}

\* Sources that vary the measured arrays
MeasurementSources ==
    { [EmptySource EXCEPT
          !.reflectivity = [IdRefl EXCEPT !.probe = probe,
                                          !.reflectivity = Nested(q, r, geometry)]]
      : q \in QArrays, r \in RArrays,
        geometry \in {"", "front reflection"}, probe \in {"", "neutrons"} }
    \cup { [EmptySource EXCEPT
                !.reflectivity = [IdRefl EXCEPT
                                     !.reflectivity = Nested(q, <<F(100)>>, "front reflection")]]
           : q \in InfiniteQ }

GoodNested == Nested(<<F(100), F(300)>>, <<F(100), F(100)>>, "front reflection")

FullRefl ==
    [IdRefl EXCEPT !.created_at = [kind |-> "dt", t |-> 1000],
                   !.run_start = [kind |-> "iso", t |-> 500],
                   !.facility = "SNS", !.instrument_name = "REF_L",
                   !.laboratory = "ORNL", !.probe = "neutrons",
                   !.raw_file_path = "/data/raw.nxs",
                   !.sample_name = "Cu/Si",
                   !.reflectivity = GoodNested]

ReflShapes ==
    { NoRefl,
      [NoRefl EXCEPT !.state = "empty"],
      IdRefl,
      [IdRefl EXCEPT !.reflectivity = [NoNested EXCEPT !.state = "null"]],
      [IdRefl EXCEPT !.reflectivity = [NoNested EXCEPT !.state = "empty"]],
      [IdRefl EXCEPT !.run_start = [kind |-> "junk", t |-> 0], !.reflectivity = GoodNested],
      FullRefl }

SampleShapes ==
    { NoSample,
      [NoSample EXCEPT !.state = "empty"],
      [NoSample EXCEPT !.state = "map", !.main_composition = "Cu",
                       !.layers = <<Layer("air", I(0)), Layer("Cu", I(50)),
                                    Layer("Si", I(150))>>],
      [NoSample EXCEPT !.state = "map", !.layers = <<Layer("Cu", I(50)), NotALayer>>],
      [NoSample EXCEPT !.state = "map", !.layers = <<Layer("Cu", Bad)>>] }

EnvShapes ==
    { NoEnv,
      [NoEnv EXCEPT !.state = "empty"],
      [NoEnv EXCEPT !.state = "map", !.ambient_medium = "air"],
      [NoEnv EXCEPT !.state = "map", !.ambient_medium = "air",
                    !.temperature_value_kelvin = I(300)],
      [NoEnv EXCEPT !.state = "map", !.ambient_medium = "air",
                    !.temperature_value_kelvin = Bad] }

UpstreamMessages == { <<>>, <<"upstream">> }

\* Sources that vary which mappings are present and well formed
ShapeSources ==
    { [reflectivity |-> refl, sample |-> smp, environment |-> envr,
       warnings |-> w, errors |-> e]
      : refl \in ReflShapes, smp \in SampleShapes, envr \in EnvShapes,
        w \in UpstreamMessages, e \in UpstreamMessages }

Sources == MeasurementSources \cup ShapeSources

AllPaths == {"/data/raw.nxs", "/data/sample.json"}

\* The sets of readable regular files a call can find
ReadableSets == {{}, {"/data/sample.json"}, AllPaths}

\* What a mapper call can observe of the world: the current time and the
\* readable files
Environments == [now : Times, readable : ReadableSets]

\* The part of the world a mapper reads: Timestamps the clock, Assets the
\* files; the other mappers read neither
EnvironmentsFor(m) ==
    CASE m.cls = "TimestampsMapper" -> [now : Times, readable : {AllPaths}]
      [] m.cls = "AssetsMapper" -> [now : {1500}, readable : ReadableSets]
      [] OTHER -> [now : {1500}, readable : {AllPaths}]

\* A converter given one of the default mappers as its list
SingleLists ==
    { <<DefaultMapper("MeasurementMapper", "measurement")>>,
      <<DefaultMapper("ContextMapper", "context")>>,
      <<DefaultMapper("AssetsMapper", "assets")>>,
      <<DefaultMapper("SampleMapper", "sample")>>,
      <<DefaultMapper("TimestampsMapper", "timestamps")>> }

\* What a caller's mapper may have put on the typed channel
TypedData ==
    [q_min : {NoNum, F(100)}, q_max : {NoNum, F(300)}, n_points : {NoNum, I(2)},
     measurement_geometry : {"", "front reflection"}]

\* A metadata bag with every legacy key, and the bags with some of them
FullBag ==
    [q_min |-> F(111), q_max |-> F(333), n_points |-> I(7),
     measurement_geometry |-> "back reflection"]

Bags == {[k \in S |-> FullBag[k]] : S \in SUBSET DOMAIN FullBag}

\* A converter whose list is a publishing mapper and then Descriptors
PublishedLists ==
    { <<Publisher(typed, bag), DefaultMapper("DescriptorsMapper", "descriptors")>>
      : typed \in TypedData, bag \in Bags }

\* The values of an array that only passes through the sanitization
ArrayValues ==
    { F(100), I(200), NaN, PosInf, NegInf, Bad, Str(150), Wrapped(F(300)),
      Wrapped(I(400)), Wrapped(NaN) }

\* An array of n good values
Plain(n) == [i \in 1..n |-> F(100)]

\* The nested reflectivity data with the four arrays
Arrays(q, r, dr, dq) == [NoNested EXCEPT !.state = "map", !.q = q, !.r = r, !.dr = dr, !.dq = dq]

\* Nested data that vary the lengths of the four arrays, and nested data that
\* vary the values of one array at a time
SeriesData ==
    { Arrays(Plain(nq), Plain(nr), Plain(ndr), Plain(ndq))
      : nq \in 1..MaxLen, nr \in 1..MaxLen, ndr \in 0..MaxLen, ndq \in 0..MaxLen }
    \cup { Arrays(q, Plain(Len(q)), Plain(Len(q)), Plain(Len(q)))
           : q \in QArrays \ {<<>>} }
    \cup { Arrays(Plain(Len(a)), a, Plain(Len(a)), Plain(Len(a)))
           : a \in SeqsUpTo(ArrayValues, MaxLen) \ {<<>>} }
    \cup { Arrays(Plain(Len(a)), Plain(Len(a)), a, Plain(Len(a)))
           : a \in SeqsUpTo(ArrayValues, MaxLen) \ {<<>>} }
    \cup { Arrays(Plain(Len(a)), Plain(Len(a)), Plain(Len(a)), a)
           : a \in SeqsUpTo(ArrayValues, MaxLen) \ {<<>>} }

SeriesSources ==
    { [EmptySource EXCEPT !.reflectivity = [IdRefl EXCEPT !.reflectivity = d]]
      : d \in SeriesData }

\* Environments that vary the two required fields and one extra condition
ConditionEnvs ==
    { [NoEnv EXCEPT !.state = st, !.ambient_medium = ambient,
                    !.environment_description = description,
                    !.temperature_value_kelvin = temperature,
                    !.pressure_value_pa = pressure]
      : st \in {"null", "empty", "map"}, ambient \in {"", "air"},
        description \in {"", "in air"},
        temperature \in {NoNum, I(0), F(2980000), NaN, Bad},
        pressure \in {NoNum, F(1000), Bad} }

ContextSources ==
    { [EmptySource EXCEPT !.reflectivity = refl, !.environment = envr]
      : refl \in {NoRefl, FullRefl}, envr \in ConditionEnvs }

\* Sources that vary the five places a file reference is looked for
AssetSources ==
    { [EmptySource EXCEPT
          !.reflectivity = [NoRefl EXCEPT !.state = rst, !.raw_file_path = raw,
                                          !.reduced_file = reduced,
                                          !.reflectivity =
                                              [NoNested EXCEPT !.state = nd[1],
                                                               !.source_file = nd[2]]],
          !.sample = [NoSample EXCEPT !.state = "map", !.sample_file = smp],
          !.environment = [NoEnv EXCEPT !.state = "map", !.environment_file = envf]]
      : rst \in {"null", "map"}, raw \in {"", "/data/raw.nxs"},
        reduced \in {"", "/data/reduced.txt"},
        nd \in { <<"absent", "">>, <<"null", "">>, <<"map", "">>,
                 <<"map", "/data/raw.nxs">>, <<"map", "/data/model.json">> },
        smp \in {"", "file:///data/sample.json"},
        envf \in {"", "s3://bucket/env.json"} }

\* Layers as material/thickness pairs: an ambient layer of thickness 0, whole
\* angstroms (1/32 is a tie at four decimals), a layer without a material,
\* a negative thickness and an infinitely thick substrate
LayerValues ==
    { Layer("air", I(0)), Layer("Cu", I(1)), Layer("Cu", I(2)), Layer("Si", I(1)),
      Layer("Si", I(31)), Layer("", I(1)), Layer("Si", I(-1)), Layer("Si", PosInf) }

\* The layer stacks of up to MaxLayers layers
LayerStacks == UNION {[1..n -> LayerValues] : n \in 0..MaxLayers}

LayerSources ==
    { [EmptySource EXCEPT !.sample = [NoSample EXCEPT !.state = "map", !.layers = ls]]
      : ls \in LayerStacks }

\* Sources that vary the reflectivity record: null, empty, without or with
\* a run_start
TimestampSources ==
    { [EmptySource EXCEPT !.reflectivity = refl] : refl \in ReflShapes }

\* Sources without and with a probe
ProbeSources ==
    { EmptySource, [EmptySource EXCEPT !.reflectivity = [IdRefl EXCEPT !.probe = "neutrons"]] }

\* The sources a single default mapper is run on
SourcesFor(m) ==
    CASE m.cls = "MeasurementMapper" -> SeriesSources
      [] m.cls = "ContextMapper" -> ContextSources
      [] m.cls = "AssetsMapper" -> AssetSources
      [] m.cls = "SampleMapper" -> LayerSources
      [] m.cls = "TimestampsMapper" -> TimestampSources
      [] OTHER -> {EmptySource}

\* The sources two threads convert: an empty one, a full one, one whose
\* run_start cannot be parsed and one that fails in Measurement and comes
\* with upstream messages
ThreadSources ==
    { EmptySource,
      [EmptySource EXCEPT !.reflectivity = FullRefl],
      [EmptySource EXCEPT !.reflectivity = [FullRefl EXCEPT !.run_start =
                                               [kind |-> "junk", t |-> 0]]],
      [EmptySource EXCEPT !.reflectivity =
                              [IdRefl EXCEPT !.reflectivity =
                                   Nested(<<Bad>>, <<F(100)>>, "front reflection")],
                          !.warnings = <<"upstream">>, !.errors = <<"upstream">>] }

\* The arguments of the convert() calls.  One thread: every source with a
\* fixed timestamp, and for one full source and for caller-supplied mappers
\* every way of passing or leaving out record_id and timestamp.  Two
\* threads: a few sources with an injected timestamp and no record_id.
ConvertArguments(ms, n) ==
    IF ms \in SingleLists
    THEN [src : SourcesFor(ms[1]), rid : {NoId}, ts : {1500}]
    ELSE IF ms \in PublishedLists
    THEN [src : ProbeSources, rid : {NoId}, ts : {1500}]
    ELSE IF n > 1
    THEN [src : IF ms = _default_mappers THEN ThreadSources ELSE {EmptySource},
          rid : {NoId}, ts : {1500}]
    ELSE IF ms = _default_mappers
    THEN [src : Sources, rid : {NoId}, ts : {1500}]
           \cup [src : {EmptySource, [EmptySource EXCEPT !.reflectivity = FullRefl]},
                 rid : CallerIds \cup {NoId}, ts : {NoTimestamp, 1500}]
    ELSE [src : {EmptySource}, rid : CallerIds \cup {NoId}, ts : {NoTimestamp}]

(***************************************************************************)
(* Schema loading and validation (converter.py).  The three schema files   *)
(* and the jsonschema package belong to the environment; the validator's   *)
(* verdict on a record is its own.                                         *)
(***************************************************************************)
FileStates == {"missing", "ok", "malformed"}

NoSchema == "none"

\* _load_schema_from_path: [schema returned, cache afterwards]
_load_schema_from_path(cache, which, state) ==
    IF state = "ok" THEN [schema |-> which, cache |-> which]
    ELSE [schema |-> NoSchema, cache |-> cache]

\* A _load_schema that goes on to the next location when a file does not parse
_load_schema_falls_through(cache, explicit, envvar, bundled) ==
    IF cache # NoSchema THEN [schema |-> cache, cache |-> cache]
    ELSE IF explicit = "ok" THEN _load_schema_from_path(cache, "explicit", explicit)
    ELSE IF envvar = "ok" THEN _load_schema_from_path(cache, "env", envvar)
    ELSE IF bundled = "ok" THEN _load_schema_from_path(cache, "bundled", bundled)
    ELSE [schema |-> NoSchema, cache |-> cache]

\* _load_schema: cached document, else explicit path, else ISAAC_SCHEMA_PATH,
\* else the bundled file
_load_schema(cache, explicit, envvar, bundled) ==
    IF cache # NoSchema THEN [schema |-> cache, cache |-> cache]
    ELSE IF explicit # "missing" THEN _load_schema_from_path(cache, "explicit", explicit)
    ELSE IF envvar # "missing" THEN _load_schema_from_path(cache, "env", envvar)
    ELSE IF bundled # "missing" THEN _load_schema_from_path(cache, "bundled", bundled)
    ELSE [schema |-> NoSchema, cache |-> cache]

\* _validate_schema: [errors, ran, cache afterwards]
_validate_schema(cache, installed, explicit, envvar, bundled, violations) ==
    LET ld == _load_schema(cache, explicit, envvar, bundled)
    IN  IF ~installed THEN [errors |-> <<>>, ran |-> FALSE, cache |-> cache]
        ELSE IF ld.schema = NoSchema THEN [errors |-> <<>>, ran |-> FALSE, cache |-> ld.cache]
        ELSE [errors |-> [i \in 1..violations |-> <<"schema violation", i>>],
              ran |-> TRUE, cache |-> ld.cache]

NoValidation ==
    [installed |-> FALSE, explicit |-> "missing", envvar |-> "missing",
     bundled |-> "missing", violations |-> 0]

\* What one schema validation finds around it: the files and the verdict
\* matter only where the jsonschema package can be imported
SchemaWorlds ==
    { w \in [installed : BOOLEAN, explicit : FileStates, envvar : FileStates,
             bundled : FileStates, violations : 0..MaxSchemaErrors] :
        w.installed \/ w = NoValidation }

\* A few of them: only the explicit file, an unparsable explicit file before
\* two good ones, only the bundled file, no file at all
FewWorlds ==
    { w \in SchemaWorlds :
        <<w.explicit, w.envvar, w.bundled>> \in
            { <<"ok", "missing", "missing">>, <<"malformed", "ok", "ok">>,
              <<"missing", "missing", "ok">>, <<"missing", "missing", "missing">> } }

\* The worlds a converter is run in: all of them for caller-supplied mappers
\* used by one thread
SchemaWorldsFor(ms, n) ==
    IF n > 1 \/ ms = _default_mappers \/ ms \in SingleLists \/ ms \in PublishedLists
    THEN FewWorlds ELSE SchemaWorlds

(***************************************************************************)
(* ConversionResult.to_json (converter.py)                                 *)
(*                                                                         *)
(* A record handed to to_json is a tree of JSON values: None, a number, a  *)
(* string, a dict (a function from its keys) or a list (a sequence).  The  *)
(* text json.dumps writes is the sequence of its tokens, the white space   *)
(* between them included.                                                  *)
(***************************************************************************)
JsonValue(t, s, f, l) == [t |-> t, s |-> s, f |-> f, l |-> l]

\* None; a number, by its digits; a string; a dict; a list
None == JsonValue("null", "", EmptyDict, <<>>)
Number(digits) == JsonValue("num", digits, EmptyDict, <<>>)
String(s) == JsonValue("str", s, EmptyDict, <<>>)
Dict(f) == JsonValue("dict", "", f, <<>>)
List(l) == JsonValue("list", "", EmptyDict, l)

\* The items of a list that are not None
NotNone(s) == SelectSeq(s, LAMBDA x : x.t # "null")

\* A _remove_nulls that drops the None items of a list as well
RECURSIVE _remove_nulls_and_items(_)
_remove_nulls_and_items(obj) ==
    IF obj.t = "dict"
    THEN Dict([k \in {x \in DOMAIN obj.f : obj.f[x].t # "null"} |->
                  _remove_nulls_and_items(obj.f[k])])
    ELSE IF obj.t = "list"
    THEN List([i \in 1..Len(NotNone(obj.l)) |-> _remove_nulls_and_items(NotNone(obj.l)[i])])
    ELSE obj

\* _remove_nulls(obj): `{k: _remove_nulls(v) for k, v in obj.items() if v is
\* not None}` for a dict, `[_remove_nulls(item) for item in obj]` for a list,
\* obj itself otherwise
RECURSIVE _remove_nulls(_)
_remove_nulls(obj) ==
    IF obj.t = "dict"
    THEN Dict([k \in {x \in DOMAIN obj.f : obj.f[x].t # "null"} |->
                  _remove_nulls(obj.f[k])])
    ELSE IF obj.t = "list"
    THEN List([i \in 1..Len(obj.l) |-> _remove_nulls(obj.l[i])])
    ELSE obj

\* The tokens of the text
Token(s) == [tok |-> s, s |-> "", n |-> 0]
Literal(obj) == [tok |-> obj.t, s |-> obj.s, n |-> 0]
Spaces(n) == [tok |-> "space", s |-> "", n |-> n]
Newline == Token("newline")

\* The indent argument: None, or a number of spaces per level
NoIndent == [given |-> FALSE, n |-> 0]
Indent(n) == [given |-> TRUE, n |-> n]

\* json.dumps starts every item of a non-empty container on a line of its
\* own, indented by its level, when an indent is given
LineBreak(indent, level) ==
    IF indent.given THEN <<Newline, Spaces(indent.n * level)>> ELSE <<>>

\* The item separator: "," and a line break with an indent, ", " without
ItemSeparator(indent, level) ==
    IF indent.given THEN <<Token(",")>> \o LineBreak(indent, level)
    ELSE <<Token(","), Spaces(1)>>

\* The key separator ": "
KeySeparator == <<Token(":"), Spaces(1)>>

RECURSIVE dumps(_, _, _), Members(_, _, _, _), Member(_, _, _, _, _), Items(_, _, _, _)

\* The entries of dict f under the keys S, one after the other
Members(f, S, indent, level) == Member(f, CHOOSE k \in S : TRUE, S, indent, level)

Member(f, k, S, indent, level) ==
    <<Literal(String(k))>> \o KeySeparator \o dumps(f[k], indent, level)
        \o (IF S = {k} THEN <<>>
            ELSE ItemSeparator(indent, level) \o Members(f, S \ {k}, indent, level))

\* The items of list s from the i-th on
Items(s, i, indent, level) ==
    dumps(s[i], indent, level)
        \o (IF i = Len(s) THEN <<>>
            ELSE ItemSeparator(indent, level) \o Items(s, i + 1, indent, level))

\* json.dumps(obj, indent=indent) at a nesting level; an empty container is
\* written "{}" or "[]" whatever the indent
dumps(obj, indent, level) ==
    IF obj.t = "dict"
    THEN IF DOMAIN obj.f = {} THEN <<Token("{"), Token("}")>>
         ELSE <<Token("{")>> \o LineBreak(indent, level + 1)
                  \o Members(obj.f, DOMAIN obj.f, indent, level + 1)
                  \o LineBreak(indent, level) \o <<Token("}")>>
    ELSE IF obj.t = "list"
    THEN IF Len(obj.l) = 0 THEN <<Token("["), Token("]")>>
         ELSE <<Token("[")>> \o LineBreak(indent, level + 1)
                  \o Items(obj.l, 1, indent, level + 1)
                  \o LineBreak(indent, level) \o <<Token("]")>>
    ELSE <<Literal(obj)>>

\* ConversionResult.to_json(indent, include_nulls): `record = self.record if
\* include_nulls else _remove_nulls(self.record)`, then json.dumps
to_json(self, indent, include_nulls) ==
    dumps(IF include_nulls THEN self.record ELSE _remove_nulls(self.record), indent, 0)

\* The records a caller serializes: nested dicts with null entries, lists of
\* dicts, a channel's values array with a null position, empty containers
Scalars == {None, Number("1"), String("value")}

SmallDicts == {Dict(f) : f \in UNION {[S -> Scalars] : S \in SUBSET {"a", "b"}}}

NestedDict ==
    Dict([inner |-> String("value"), null_inner |-> None,
          deep |-> Dict([d |-> None, e |-> List(<<Dict([f |-> None])>>)])])

JsonLists ==
    {List(<<>>), List(<<Number("1"), None, Number("3")>>),
     List(<<Dict([a |-> Number("1"), b |-> None]), None>>),
     List(<<None, List(<<None, Number("2")>>), Dict([b |-> None])>>)}

Documents ==
    {Dict(f) : f \in UNION {[S -> Scalars \cup SmallDicts \cup {NestedDict} \cup JsonLists] :
                                S \in SUBSET {"values", "outer"}}}

\* to_json was not called
NoJson == [indent |-> NoIndent, include_nulls |-> FALSE, text |-> <<>>]

\* The indent arguments: None, 0 and the default 2
Indents == {NoIndent, Indent(0), Indent(2)}

(***************************************************************************)
(* IsaacRecordConverter (converter.py)                                     *)
(***************************************************************************)
\* IsaacRecordConverter(mappers, validate_output): a falsy mapper list
\* means the default mappers
\* No call is running: no arguments
NoCall == [record_id |-> NoId, timestamp |-> NoTimestamp]

\* The locals of a thread that is not inside convert()
IdleFrame ==
    [pc |-> "idle", source |-> EmptySource, call |-> NoCall,
     context |-> NewContext(NoId, NoTimestamp), record |-> EmptyDict,
     error_details |-> <<>>, idx |-> 1, invoked |-> <<>>, schema_errors |-> <<>>,
     result |-> EmptyDict, cached |-> NoSchema, world |-> NoValidation]

\* The mapper lists two threads run: the default list and the one-mapper lists
ThreadLists == {_default_mappers} \cup {ms \in MockLists : Len(ms) <= 1}

Init ==
    /\ mappers \in MockLists \cup {_default_mappers}
    /\ validate_output \in BOOLEAN
    /\ schema = NoSchema
    /\ pc = "idle"
    /\ remaining = 1
    /\ source = EmptySource
    /\ call = NoCall
    /\ context = NewContext(NoId, NoTimestamp)
    /\ record = EmptyDict
    /\ error_details = <<>>
    /\ idx = 1
    /\ invoked = <<>>
    /\ schema_errors = <<>>
    /\ result = EmptyDict
    /\ cached = NoSchema
    /\ world = NoValidation
    /\ loads = 0
    /\ threads = 1
    /\ other = IdleFrame
    /\ json = NoJson

\* A converter that runs a single default mapper, or Descriptors after a
\* caller's mapper that publishes
InitSingle ==
    /\ mappers \in SingleLists \cup PublishedLists
    /\ validate_output \in BOOLEAN
    /\ schema = NoSchema
    /\ pc = "idle"
    /\ remaining = 1
    /\ source = EmptySource
    /\ call = NoCall
    /\ context = NewContext(NoId, NoTimestamp)
    /\ record = EmptyDict
    /\ error_details = <<>>
    /\ idx = 1
    /\ invoked = <<>>
    /\ schema_errors = <<>>
    /\ result = EmptyDict
    /\ cached = NoSchema
    /\ world = NoValidation
    /\ loads = 0
    /\ threads = 1
    /\ other = IdleFrame
    /\ json = NoJson

\* Two threads share the converter and make two convert() calls between them
InitThreads ==
    /\ mappers \in ThreadLists
    /\ validate_output \in BOOLEAN
    /\ schema = NoSchema
    /\ pc = "idle"
    /\ remaining = 2
    /\ source = EmptySource
    /\ call = NoCall
    /\ context = NewContext(NoId, NoTimestamp)
    /\ record = EmptyDict
    /\ error_details = <<>>
    /\ idx = 1
    /\ invoked = <<>>
    /\ schema_errors = <<>>
    /\ result = EmptyDict
    /\ cached = NoSchema
    /\ world = NoValidation
    /\ loads = 0
    /\ threads = 2
    /\ other = IdleFrame
    /\ json = NoJson

\* The root fields convert() seeds the record with
RootRecord(record_id) ==
    [record_id |-> record_id, isaac_record_version |-> ISAAC_VERSION,
     record_type |-> "evidence", record_domain |-> "characterization"]

\* A convert() that builds its context on the lists of the call the other
\* thread made
Convert_shared_lists ==
    /\ pc = "idle"
    /\ remaining > 0
    /\ \E args \in ConvertArguments(mappers, threads), now \in Times, rnd \in Randoms :
        LET timestamp == IF args.ts = NoTimestamp THEN now ELSE args.ts
            record_id == IF args.rid = NoId THEN generate_ulid(timestamp, rnd) ELSE args.rid
        IN  /\ source' = args.src
            /\ call' = [record_id |-> args.rid, timestamp |-> args.ts]
            /\ context' = [NewContext(record_id, timestamp) EXCEPT
                               !.warnings = other.context.warnings,
                               !.errors = other.context.errors]
            /\ record' = RootRecord(record_id)
    /\ error_details' = <<>>
    /\ idx' = 1
    /\ invoked' = <<>>
    /\ schema_errors' = <<>>
    /\ result' = EmptyDict
    /\ remaining' = remaining - 1
    /\ pc' = "mapping"
    /\ UNCHANGED <<mappers, validate_output, schema, cached, world, loads, threads,
                   other, json>>

\* convert(result, record_id, timestamp) up to the mapper loop
Convert ==
    /\ pc = "idle"
    /\ remaining > 0
    /\ \E args \in ConvertArguments(mappers, threads), now \in Times, rnd \in Randoms :
        LET timestamp == IF args.ts = NoTimestamp THEN now ELSE args.ts
            record_id == IF args.rid = NoId THEN generate_ulid(timestamp, rnd) ELSE args.rid
        IN  /\ source' = args.src
            /\ call' = [record_id |-> args.rid, timestamp |-> args.ts]
            /\ context' = NewContext(record_id, timestamp)
            /\ record' = RootRecord(record_id)
    /\ error_details' = <<>>
    /\ idx' = 1
    /\ invoked' = <<>>
    /\ schema_errors' = <<>>
    /\ result' = EmptyDict
    /\ remaining' = remaining - 1
    /\ pc' = "mapping"
    /\ UNCHANGED <<mappers, validate_output, schema, cached, world, loads, threads,
                   other, json>>

\* An except branch that starts the record over
Caught_resets_record(m, ctx, msg, type, phase) ==
    [context |-> add_error(ctx, <<"Mapper", m.name, "failed", msg>>),
     record |-> RootRecord(ctx.record_id),
     error_details |-> Append(error_details,
                              [mapper |-> m.name, error |-> msg, type |-> type,
                               traceback |-> <<m.name, phase>>])]

\* The except branch of the loop body
Caught(m, ctx, msg, type, phase) ==
    [context |-> add_error(ctx, <<"Mapper", m.name, "failed", msg>>),
     record |-> record,
     error_details |-> Append(error_details,
                              [mapper |-> m.name, error |-> msg, type |-> type,
                               traceback |-> <<m.name, phase>>])]

\* A loop body that stores the block before it calls validate()
AfterValidate_block_first(m, mr, vr) ==
    IF vr.outcome = "raise"
    THEN [Caught(m, vr.ctx, vr.msg, vr.type, "validate") EXCEPT
              !.record = Put(record, m.name, mr.block)] @@ [validate |-> "raise"]
    ELSE [context |-> vr.ctx, record |-> Put(record, m.name, mr.block),
          error_details |-> error_details, validate |-> vr.outcome]

\* A loop body that drops a block its mapper's validate() rejected
AfterValidate_drop_invalid(m, mr, vr) ==
    IF vr.outcome = "raise"
    THEN Caught(m, vr.ctx, vr.msg, vr.type, "validate") @@ [validate |-> "raise"]
    ELSE [context |-> vr.ctx,
          record |-> IF vr.outcome = "true" THEN Put(record, m.name, mr.block) ELSE record,
          error_details |-> error_details, validate |-> vr.outcome]

\* The loop body after validate() returned or raised
AfterValidate(m, mr, vr) ==
    IF vr.outcome = "raise"
    THEN Caught(m, vr.ctx, vr.msg, vr.type, "validate") @@ [validate |-> "raise"]
    ELSE [context |-> vr.ctx, record |-> Put(record, m.name, mr.block),
          error_details |-> error_details, validate |-> vr.outcome]

\* A loop body that does not ask whether the mapper is required
AfterMap_unchecked(m, mr) ==
    CASE mr.outcome = "raise" ->
            Caught(m, mr.ctx, mr.msg, mr.type, "map") @@ [validate |-> "not called"]
      [] mr.outcome = "none" ->
            [context |-> mr.ctx, record |-> record, error_details |-> error_details,
             validate |-> "not called"]
      [] mr.outcome = "block" -> AfterValidate(m, mr, Validate(m, mr.block, mr.ctx))

\* A loop body that warns about every mapper that returned None
AfterMap_warns(m, mr) ==
    CASE mr.outcome = "raise" ->
            Caught(m, mr.ctx, mr.msg, mr.type, "map") @@ [validate |-> "not called"]
      [] mr.outcome = "none" ->
            [context |-> IF is_required(m)
                         THEN add_error(mr.ctx, <<"Required block", m.name, "returned None">>)
                         ELSE add_warning(mr.ctx, <<"Block", m.name, "returned None">>),
             record |-> record, error_details |-> error_details,
             validate |-> "not called"]
      [] mr.outcome = "block" -> AfterValidate(m, mr, Validate(m, mr.block, mr.ctx))

\* The loop body after map() returned or raised
AfterMap(m, mr) ==
    CASE mr.outcome = "raise" ->
            Caught(m, mr.ctx, mr.msg, mr.type, "map") @@ [validate |-> "not called"]
      [] mr.outcome = "none" ->
            [context |-> IF is_required(m)
                         THEN add_error(mr.ctx, <<"Required block", m.name, "returned None">>)
                         ELSE mr.ctx,
             record |-> record, error_details |-> error_details,
             validate |-> "not called"]
      [] mr.outcome = "block" -> AfterValidate(m, mr, Validate(m, mr.block, mr.ctx))

\* One iteration of `for mapper in self.mappers`: the values of context,
\* record and error_details after it, and what the two calls did
LoopBody(m, env) == AfterMap(m, Map(m, context, source, env)) @@
                    [map |-> Map(m, context, source, env).outcome,
                     opened |-> Opened(m, source, env)]

\* The assignments of one iteration
Iteration(m, after) ==
    /\ context' = after.context
    /\ record' = after.record
    /\ error_details' = after.error_details
    /\ invoked' = Append(invoked,
                         [mapper |-> m.name, map |-> after.map, validate |-> after.validate,
                          opened |-> after.opened])

\* A loop that a caught exception ends: `break` at the end of the except branch
RunMapper_break ==
    /\ pc = "mapping"
    /\ idx <= Len(mappers)
    /\ \E env \in EnvironmentsFor(mappers[idx]) : Iteration(mappers[idx], LoopBody(mappers[idx], env))
    /\ idx' = IF Len(error_details') > Len(error_details) THEN Len(mappers) + 1 ELSE idx + 1
    /\ UNCHANGED <<mappers, validate_output, schema, pc, remaining, source, call,
                   schema_errors, result, cached, world, loads, threads, other, json>>

RunMapper ==
    /\ pc = "mapping"
    /\ idx <= Len(mappers)
    /\ \E env \in EnvironmentsFor(mappers[idx]) : Iteration(mappers[idx], LoopBody(mappers[idx], env))
    /\ idx' = idx + 1
    /\ UNCHANGED <<mappers, validate_output, schema, pc, remaining, source, call,
                   schema_errors, result, cached, world, loads, threads, other, json>>

\* ConversionResult(...)
ConversionResult(rec, record_id, warnings, errors, is_valid, details) ==
    [record |-> rec, record_id |-> record_id, warnings |-> warnings, errors |-> errors,
     is_valid |-> is_valid, error_details |-> details]

\* context.errors.extend(schema_errors)
Extended(ctx, schema_errs) == [ctx EXCEPT !.errors = @ \o schema_errs]

\* is_valid that looks at the schema errors only
ResultIsValid_schema_only(schema_errs, ctx) == Len(schema_errs) = 0

\* is_valid: no schema error was reported, and `not context.has_errors`
ResultIsValid(schema_errs, ctx) == Len(schema_errs) = 0 /\ ~has_errors(ctx)

\* _load_schema()'s first statement: `if self._schema is not None`.  What the
\* thread read stays with it until it acts on it.
CheckCache ==
    /\ pc = "mapping"
    /\ idx > Len(mappers)
    /\ validate_output
    /\ cached' = schema
    /\ pc' = "loading"
    /\ UNCHANGED <<mappers, validate_output, schema, remaining, source, call, context,
                   record, error_details, idx, invoked, schema_errors, result, world,
                   loads, threads, other, json>>

\* `self._schema = json.load(f)`: a parsed document replaces the attribute;
\* nothing else writes it
Stored(seen, after, current) == IF after # seen THEN after ELSE current

\* A parse that succeeded
Parsed(seen, after) == IF after # seen THEN 1 ELSE 0

\* The end of convert(): schema validation and the returned result
Finish ==
    /\ \/ pc = "loading"
       \/ pc = "mapping" /\ idx > Len(mappers) /\ ~validate_output
    /\ \E w \in (IF validate_output THEN SchemaWorldsFor(mappers, threads)
                                      ELSE {NoValidation}) :
        LET vs == IF validate_output
                  THEN _validate_schema(cached, w.installed, w.explicit, w.envvar,
                                        w.bundled, w.violations)
                  ELSE [errors |-> <<>>, ran |-> FALSE, cache |-> cached]
        IN  /\ world' = w
            /\ schema_errors' = vs.errors
            /\ schema' = Stored(cached, vs.cache, schema)
            /\ loads' = loads + Parsed(cached, vs.cache)
            /\ context' = Extended(context, vs.errors)
            /\ result' = ConversionResult(record, context.record_id, context.warnings,
                                          Extended(context, vs.errors).errors,
                                          ResultIsValid(vs.errors,
                                                        Extended(context, vs.errors)),
                                          error_details)
    /\ pc' = "done"
    /\ UNCHANGED <<mappers, validate_output, remaining, source, call, record,
                   error_details, idx, invoked, cached, threads, other, json>>

\* The caller is done with the result and the call's locals are gone; the
\* converter can be used again
Discard ==
    /\ pc = "done"
    /\ pc' = "idle"
    /\ source' = EmptySource
    /\ call' = NoCall
    /\ context' = NewContext(NoId, NoTimestamp)
    /\ record' = EmptyDict
    /\ error_details' = <<>>
    /\ idx' = 1
    /\ invoked' = <<>>
    /\ schema_errors' = <<>>
    /\ result' = EmptyDict
    /\ cached' = NoSchema
    /\ world' = NoValidation
    /\ UNCHANGED <<mappers, validate_output, schema, remaining, loads, threads, other, json>>

\* The locals of the running thread
Frame ==
    [pc |-> pc, source |-> source, call |-> call, context |-> context,
     record |-> record, error_details |-> error_details, idx |-> idx,
     invoked |-> invoked, schema_errors |-> schema_errors, result |-> result,
     cached |-> cached, world |-> world]

\* The scheduler runs the other thread: the converter's attributes are shared,
\* each thread has its own locals
Switch ==
    /\ threads > 1
    /\ other' = Frame
    /\ pc' = other.pc
    /\ source' = other.source
    /\ call' = other.call
    /\ context' = other.context
    /\ record' = other.record
    /\ error_details' = other.error_details
    /\ idx' = other.idx
    /\ invoked' = other.invoked
    /\ schema_errors' = other.schema_errors
    /\ result' = other.result
    /\ cached' = other.cached
    /\ world' = other.world
    /\ UNCHANGED <<mappers, validate_output, schema, remaining, loads, threads, json>>

\* The caller serializes the result it holds: result.to_json(indent,
\* include_nulls)
ToJson ==
    /\ pc = "done"
    /\ \E indent \in Indents, include_nulls \in BOOLEAN :
           json' = [indent |-> indent, include_nulls |-> include_nulls,
                    text |-> to_json(result, indent, include_nulls)]
    /\ UNCHANGED <<mappers, validate_output, schema, pc, remaining, source, call, context,
                   record, error_details, idx, invoked, schema_errors, result, cached,
                   world, loads, threads, other>>

Next == Convert \/ RunMapper \/ CheckCache \/ Finish \/ Discard

NextThreads == Next \/ Switch

SpecThreads == InitThreads /\ [][NextThreads]_vars

SpecSingle == InitSingle /\ [][Next]_vars

\* A caller that holds a ConversionResult and serializes it
InitJson ==
    /\ mappers = _default_mappers
    /\ validate_output = FALSE
    /\ schema = NoSchema
    /\ pc = "done"
    /\ remaining = 0
    /\ source = EmptySource
    /\ call = NoCall
    /\ context = NewContext(NoId, NoTimestamp)
    /\ record = EmptyDict
    /\ error_details = <<>>
    /\ idx = 1
    /\ invoked = <<>>
    /\ schema_errors = <<>>
    /\ \E doc \in Documents : result = ConversionResult(doc, NoId, <<>>, <<>>, TRUE, <<>>)
    /\ cached = NoSchema
    /\ world = NoValidation
    /\ loads = 0
    /\ threads = 1
    /\ other = IdleFrame
    /\ json = NoJson

SpecJson == InitJson /\ [][ToJson]_vars

Spec == Init /\ [][Next]_vars

(***************************************************************************)
(* Properties of convert()                                                 *)
(***************************************************************************)
ResultFields == {"record", "record_id", "warnings", "errors", "is_valid", "error_details"}

Running == pc \in {"mapping", "loading", "done"}

\* The positions of the mappers whose map() or validate() raised
RaisedAt(i) == invoked[i].map = "raise" \/ invoked[i].validate = "raise"

\* The positions of the mappers whose block the loop stored
StoredAt(i) == invoked[i].map = "block" /\ invoked[i].validate # "raise"

\* C1: convert() never propagates a mapper exception: whatever raises inside
\* a mapper's map or validate, the i-th call of the loop is to the i-th
\* mapper of the list, every mapper has been called exactly once when the
\* loop is over, and convert() returns a ConversionResult.
C1_MapperExceptionsIsolated ==
    /\ pc \in {"idle", "mapping", "loading", "done"}
    /\ pc = "mapping" => Len(invoked) = idx - 1
    /\ Running => /\ Len(invoked) <= Len(mappers)
                  /\ \A i \in 1..Len(invoked) : invoked[i].mapper = mappers[i].name
    /\ pc = "done" => /\ Len(invoked) = Len(mappers)
                      /\ DOMAIN result = ResultFields
                      /\ result.record = record

\* A finished conversion in which a mapper raised and later mappers ran
C1_Witness ==
    /\ pc = "done"
    /\ Len(mappers) = MaxMappers
    /\ invoked[1].map = "raise"
    /\ invoked[2].validate = "raise"
    /\ invoked[MaxMappers].map = "block"

\* The errors the mappers and the loop recorded, without the schema errors
\* appended after the loop
LoopErrors == SubSeq(context.errors, 1, Len(context.errors) - Len(schema_errors))

RootFieldsSet ==
    /\ record.isaac_record_version = "1.0"
    /\ record.record_type = "evidence"
    /\ record.record_domain = "characterization"
    /\ record.record_id = context.record_id
    /\ call.record_id # NoId => record.record_id = call.record_id
    /\ pc = "done" => result.record_id = record.record_id

\* C3: after any convert() call the record's keys are exactly the four root
\* fields (record_id equal to the result's record_id and to the caller's id
\* when one is given, isaac_record_version "1.0", record_type "evidence",
\* record_domain "characterization") plus the block_name of every mapper
\* whose map returned non-null and that did not raise; a mapper that returned
\* null or raised, in map or in validate, contributes no key.
C3_RecordKeys ==
    Running =>
        /\ DOMAIN record =
             {"record_id", "isaac_record_version", "record_type", "record_domain"}
               \cup {invoked[i].mapper : i \in {j \in 1..Len(invoked) : StoredAt(j)}}
        /\ RootFieldsSet

\* A finished conversion with a caller-supplied id in which one mapper's
\* validate raised after its map returned a block, one returned null and one
\* was stored
C3_Witness ==
    /\ pc = "done"
    /\ call.record_id # NoId
    /\ \E i, j, k \in 1..Len(invoked) :
          /\ invoked[i].map = "block" /\ invoked[i].validate = "raise"
          /\ invoked[j].map = "none"
          /\ StoredAt(k)

\* C4: with the default mappers, whatever fields of the source are null or
\* mappings, the record has timestamps, acquisition_source and descriptors,
\* and descriptors.outputs[0].descriptors is not empty.
C4_RequiredBlocksAlways ==
    (pc = "done" /\ mappers = _default_mappers) =>
        /\ {"timestamps", "acquisition_source", "descriptors"} \subseteq DOMAIN record
        /\ Len(record["descriptors"].outputs) >= 1
        /\ Len(record["descriptors"].outputs[1].descriptors) >= 1

\* A default conversion of a source whose reflectivity, sample and
\* environment are all null
C4_Witness ==
    /\ pc = "done"
    /\ mappers = _default_mappers
    /\ source.reflectivity.state = "null"
    /\ source.sample.state = "null"
    /\ source.environment.state = "null"
    /\ "descriptors" \in DOMAIN record

DefaultOrder ==
    <<"timestamps", "acquisition_source", "measurement", "descriptors", "sample",
      "system", "context", "assets", "links">>

\* C5: the default mappers run in the order Timestamps, AcquisitionSource,
\* Measurement, Descriptors, Sample, System, Context, Assets, Links: the
\* calls made so far are always a prefix of that order, so Measurement's map
\* is over before Descriptors' map starts, and all nine have run at the end.
C5_DefaultOrder ==
    (Running /\ mappers = _default_mappers) =>
        /\ Len(invoked) <= Len(DefaultOrder)
        /\ \A i \in 1..Len(invoked) : invoked[i].mapper = DefaultOrder[i]
        /\ pc = "done" => Len(invoked) = Len(DefaultOrder)

\* A default conversion that has just called Descriptors after Measurement
\* returned a block
C5_Witness ==
    /\ pc = "mapping"
    /\ mappers = _default_mappers
    /\ Len(invoked) = 4
    /\ invoked[3].mapper = "measurement"
    /\ invoked[3].map = "block"
    /\ invoked[4].mapper = "descriptors"

\* The q array of the source, and whether every element is a finite number
SourceQ == source.reflectivity.reflectivity.q

AllFinite(q) == \A i \in 1..Len(q) : IsFinite(q[i])

\* v is the least (greatest) of the finite numbers of q
IsLeast(v, q) == (\E i \in 1..Len(q) : q[i].v = v) /\ (\A i \in 1..Len(q) : v <= q[i].v)

IsGreatest(v, q) == (\E i \in 1..Len(q) : q[i].v = v) /\ (\A i \in 1..Len(q) : v >= q[i].v)

\* The first three descriptors are the q range and the point count of q, as
\* published in the context
QRangeDescriptors(d, q, mdata) ==
    /\ Len(d) >= 3
    /\ d[1].name = "q_range_min" /\ d[1].value = ToFloat(PyMin(q))
    /\ d[2].name = "q_range_max" /\ d[2].value = ToFloat(PyMax(q))
    /\ d[3].name = "total_points" /\ d[3].value = I(Len(q))
    /\ d[1].value = mdata.q_min /\ d[2].value = mdata.q_max /\ d[3].value = mdata.n_points
    /\ AllFinite(q) => IsLeast(d[1].value.v, q) /\ IsGreatest(d[2].value.v, q)

\* C6: whenever the default pipeline emits a measurement block for a source
\* with non-empty q and r, the descriptors block of the same record holds, in
\* this order, q_range_min = min(q), q_range_max = max(q) and total_points =
\* len(q), the values Measurement published earlier in that conversion.
C6_QRangeDescriptors ==
    (pc = "done" /\ mappers = _default_mappers /\ invoked[3].map = "block") =>
        /\ Len(SourceQ) > 0
        /\ "measurement" \in DOMAIN record
        /\ "descriptors" \in DOMAIN record
        /\ QRangeDescriptors(record["descriptors"].outputs[1].descriptors, SourceQ,
                             context.measurement_data)

\* A default conversion of a source whose q is not sorted
C6_Witness ==
    /\ pc = "done"
    /\ mappers = _default_mappers
    /\ invoked[3].map = "block"
    /\ Len(SourceQ) = 2
    /\ AllFinite(SourceQ)
    /\ SourceQ[1].v > SourceQ[2].v
    /\ record["descriptors"].outputs[1].descriptors[1].value = F(SourceQ[2].v)

\* The source has non-empty q and r arrays
HasQR(src) ==
    /\ Truthy(src.reflectivity)
    /\ Truthy(src.reflectivity.reflectivity)
    /\ Len(src.reflectivity.reflectivity.q) > 0
    /\ Len(src.reflectivity.reflectivity.r) > 0

\* C7 (as the code has it): whenever a conversion succeeds (is_valid is
\* true), the record contains the block of every required mapper, which for
\* the default pipeline are timestamps, acquisition_source and descriptors;
\* measurement is optional and is present exactly when the source has
\* non-empty q and r arrays.
C7_ValidHasRequiredBlocks ==
    (pc = "done" /\ result.is_valid) =>
        /\ \A i \in 1..Len(mappers) :
              is_required(mappers[i]) => mappers[i].name \in DOMAIN record
        /\ mappers = _default_mappers =>
              /\ {"timestamps", "acquisition_source", "descriptors"} \subseteq DOMAIN record
              /\ "measurement" \in DOMAIN record <=> HasQR(source)

\* C7 (as stated): whenever a conversion succeeds, the record contains all
\* four blocks timestamps, acquisition_source, measurement and descriptors.
C7_AsStated ==
    (pc = "done" /\ mappers = _default_mappers /\ result.is_valid) =>
        {"timestamps", "acquisition_source", "measurement", "descriptors"}
            \subseteq DOMAIN record

\* A default conversion that succeeded without a measurement block
C7_Witness ==
    /\ pc = "done"
    /\ mappers = _default_mappers
    /\ result.is_valid
    /\ "measurement" \notin DOMAIN record
    /\ "descriptors" \in DOMAIN record

\* The calls that raised, in the order they were made
Raiser(c) == c.map = "raise" \/ c.validate = "raise"

Raisers == SelectSeq(invoked, Raiser)

\* The error entries the except branch wrote, in the order they were written
IsFailure(e) == Len(e) = 4 /\ e[1] = "Mapper" /\ e[3] = "failed"

Failures == SelectSeq(LoopErrors, IsFailure)

\* How many error entries name the block
Naming(name) == Cardinality({k \in 1..Len(LoopErrors) : name \in Range(LoopErrors[k])})

\* One error entry and one failure detail per mapper that raised, in the
\* order the mappers ran
OneErrorPerRaiser ==
    /\ Len(Failures) = Len(Raisers)
    /\ Len(error_details) = Len(Raisers)
    /\ \A k \in 1..Len(Raisers) :
          /\ Failures[k][2] = Raisers[k].mapper
          /\ Naming(Raisers[k].mapper) = 1
          /\ error_details[k].mapper = Raisers[k].mapper
          /\ error_details[k].error = Failures[k][4]
          /\ error_details[k].type # ""
          /\ error_details[k].traceback[1] = Raisers[k].mapper
    /\ pc = "done" => result.error_details = error_details

\* The context a mapper leaves behind when its map, and its validate if
\* called, return
LeftBy(m, mr) == IF mr.outcome = "block" THEN Validate(m, mr.block, mr.ctx).ctx ELSE mr.ctx

\* What a Measurement mapper that raised had published by then
PublishedBeforeRaise(m, ctx) ==
    IF m.cls = "MeasurementMapper"
    THEN _build_processing(source.reflectivity.reflectivity, ctx).ctx
    ELSE ctx

\* The context the i-th mapper would leave had the mappers that raised not
\* run at all
RECURSIVE Untouched(_, _)
Untouched(i, env) ==
    IF i = 0 THEN NewContext(context.record_id, context.created_utc)
    ELSE IF RaisedAt(i) THEN Untouched(i - 1, env)
    ELSE LeftBy(mappers[i], Map(mappers[i], Untouched(i - 1, env), source, env))

\* The same, with what a raising Measurement mapper published left in place
RECURSIVE Touched(_, _)
Touched(i, env) ==
    IF i = 0 THEN NewContext(context.record_id, context.created_utc)
    ELSE IF RaisedAt(i) THEN PublishedBeforeRaise(mappers[i], Touched(i - 1, env))
    ELSE LeftBy(mappers[i], Map(mappers[i], Touched(i - 1, env), source, env))

C8_WitnessDefault ==
    /\ pc = "done"
    /\ mappers = _default_mappers
    /\ invoked[3].map = "raise"
    /\ StoredAt(4)
    /\ record["descriptors"].outputs[1].descriptors[1].value = "front reflection"

\* The mapper call of the step that is being taken
ThisCall == invoked'[idx]

\* What the loop adds to the context its mapper left when the mapper
\* returned None: one error if the mapper is required, nothing otherwise
AfterNone(m, ctx) ==
    IF is_required(m)
    THEN [ctx EXCEPT !.errors = Append(@, <<"Required block", m.name, "returned None">>)]
    ELSE ctx

\* C9: if a mapper's map returns null and the mapper is required, convert()
\* records one error for the missing required block, omits the block and
\* still runs all remaining mappers; if an optional mapper returns null the
\* converter itself records no error and no warning.
C9_NullBlocks ==
    /\ [][(pc = "mapping" /\ idx' = idx + 1 /\ ThisCall.map = "none") =>
             /\ record' = record
             /\ error_details' = error_details
             /\ pc' = "mapping"
             /\ \E env \in Environments :
                   context' = AfterNone(mappers[idx], Map(mappers[idx], context, source, env).ctx)]_vars
    /\ [](pc = "done" =>
             /\ Len(invoked) = Len(mappers)
             /\ \A i \in 1..Len(invoked) :
                   invoked[i].map = "none" => invoked[i].mapper \notin DOMAIN record)

\* A finished conversion in which a required and an optional mapper returned
\* null ahead of a mapper whose block was stored, and the only error is the
\* one for the required block
C9_Witness ==
    /\ pc = "done"
    /\ Len(invoked) = MaxMappers
    /\ \E i, j \in 1..(MaxMappers - 1) :
          /\ invoked[i].map = "none" /\ is_required(mappers[i])
          /\ invoked[j].map = "none" /\ ~is_required(mappers[j])
          /\ LoopErrors = <<<<"Required block", mappers[i].name, "returned None">>>>
    /\ context.warnings = <<>>
    /\ StoredAt(MaxMappers)

\* C10: when a mapper's map returns a non-null block and its validate returns
\* false, the block is still placed in the record under its block_name and
\* the remaining mappers still run.
C10_InvalidBlockKept ==
    Running =>
        /\ \A i \in 1..Len(invoked) :
              invoked[i].validate = "false" =>
                  /\ invoked[i].mapper \in DOMAIN record
                  /\ mappers[i].cls = "Mock" => record[invoked[i].mapper] = MockBlock(mappers[i])
        /\ pc = "done" => Len(invoked) = Len(mappers)

\* A finished conversion in which the first mapper's validate returned false
\* and the mappers after it ran
C10_Witness ==
    /\ pc = "done"
    /\ Len(invoked) = MaxMappers
    /\ invoked[1].map = "block"
    /\ invoked[1].validate = "false"
    /\ invoked[1].mapper \in DOMAIN record
    /\ StoredAt(MaxMappers)

(***************************************************************************)
(* Calls that share a converter                                            *)
(***************************************************************************)
\* The except branch of a call run on its own, on the locals st
AloneCaught(m, st, ctx, msg, type, phase) ==
    [context |-> add_error(ctx, <<"Mapper", m.name, "failed", msg>>),
     record |-> st.record,
     error_details |-> Append(st.error_details,
                              [mapper |-> m.name, error |-> msg, type |-> type,
                               traceback |-> <<m.name, phase>>])]

AloneAfterValidate(m, st, mr, vr) ==
    IF vr.outcome = "raise"
    THEN AloneCaught(m, st, vr.ctx, vr.msg, vr.type, "validate")
    ELSE [context |-> vr.ctx, record |-> Put(st.record, m.name, mr.block),
          error_details |-> st.error_details]

AloneAfterMap(m, st, mr) ==
    CASE mr.outcome = "raise" -> AloneCaught(m, st, mr.ctx, mr.msg, mr.type, "map")
      [] mr.outcome = "none" ->
            [context |-> IF is_required(m)
                         THEN add_error(mr.ctx, <<"Required block", m.name, "returned None">>)
                         ELSE mr.ctx,
             record |-> st.record, error_details |-> st.error_details]
      [] mr.outcome = "block" ->
            AloneAfterValidate(m, st, mr, Validate(m, mr.block, mr.ctx))

\* One iteration of the loop on the locals st
AloneBody(m, st, src, env) == AloneAfterMap(m, st, Map(m, st.context, src, env))

\* The locals of a call after its first i mappers when nothing else uses the
\* converter: a function of the call's source, its identifier and timestamp,
\* and the files and clock the mappers see
RECURSIVE Alone(_, _, _, _, _)
Alone(i, src, rid, ts, env) ==
    IF i = 0
    THEN [context |-> NewContext(rid, ts), record |-> RootRecord(rid),
          error_details |-> <<>>]
    ELSE AloneBody(mappers[i], Alone(i - 1, src, rid, ts, env), src, env)

\* The schema errors a call can get on a converter that has validated nothing yet
AloneSchemaErrors ==
    { _validate_schema(NoSchema, w.installed, w.explicit, w.envvar, w.bundled,
                       w.violations).errors
      : w \in (IF validate_output THEN SchemaWorlds ELSE {NoValidation}) }

\* The result res is the one the locals st and the schema errors se give
ResultOf(res, st, se) ==
    /\ res.record = st.record
    /\ res.record_id = st.context.record_id
    /\ res.warnings = st.context.warnings
    /\ res.errors = st.context.errors \o se
    /\ res.error_details = st.error_details
    /\ res.is_valid = (Len(st.context.errors \o se) = 0)

\* The identifier and timestamp of a call are its arguments where it passed them
OwnArguments(fr) ==
    /\ fr.call.record_id # NoId => fr.context.record_id = fr.call.record_id
    /\ fr.call.timestamp # NoTimestamp => fr.context.created_utc = fr.call.timestamp
    /\ fr.call.record_id = NoId => fr.context.record_id.time = fr.context.created_utc

\* A finished call returned what it would have returned on its own
Isolated(fr) ==
    fr.pc = "done" =>
        /\ OwnArguments(fr)
        /\ \E env \in Environments, se \in AloneSchemaErrors :
              ResultOf(fr.result,
                       Alone(Len(mappers), fr.source, fr.context.record_id,
                             fr.context.created_utc, env),
                       se)

\* C11: for any sequence or interleaving of convert() calls on one converter,
\* the result of each call is the one the call gives on its own with the same
\* arguments (source, record_id, timestamp), files and clock: no warning,
\* error, published value or block of another call appears in it.
C11_CallsIsolated == Isolated(Frame) /\ Isolated(other)

\* Two calls of two threads have finished, one with errors and one valid, and
\* both threads were loading the schema at the same time
C11_Witness ==
    /\ pc = "done"
    /\ other.pc = "done"
    /\ source # other.source
    /\ Len(result.errors) > 0
    /\ Len(result.warnings) > 0
    /\ other.result.is_valid
    /\ loads = 2

\* C12: across any number of convert() calls with validation enabled,
\* sequential or concurrent, the schema document is read and parsed from disk
\* at most once, and the cached document is never replaced after it was
\* loaded.
C12_SchemaLoadedOnce ==
    /\ loads <= 1
    /\ (pc = "loading" /\ cached # NoSchema) => schema = cached
    /\ (other.pc = "loading" /\ other.cached # NoSchema) => schema = other.cached

(***************************************************************************)
(* Which schema file validates                                             *)
(***************************************************************************)
\* The highest-priority location that is configured and exists
ChosenLocation(w) ==
    IF w.explicit # "missing" THEN "explicit"
    ELSE IF w.envvar # "missing" THEN "env"
    ELSE IF w.bundled # "missing" THEN "bundled"
    ELSE NoSchema

\* The file at a location parses
Parses(w, which) ==
    CASE which = "explicit" -> w.explicit = "ok"
      [] which = "env" -> w.envvar = "ok"
      [] which = "bundled" -> w.bundled = "ok"
      [] OTHER -> FALSE

\* C13: with validation enabled, jsonschema importable and nothing cached, the
\* schema is the explicit schema_path if configured and existing, else
\* ISAAC_SCHEMA_PATH if set and existing, else the bundled file if existing;
\* the record is validated against that document and the document is cached.
\* If the chosen file fails to parse or no location resolves, validation is
\* skipped: no schema error is added, nothing is cached, and convert() still
\* returns its result.
C13_SchemaPriority ==
    (pc = "done" /\ validate_output /\ world.installed /\ cached = NoSchema) =>
        /\ DOMAIN result = ResultFields
        /\ IF Parses(world, ChosenLocation(world))
           THEN /\ Len(schema_errors) = world.violations
                /\ schema = ChosenLocation(world)
           ELSE /\ schema_errors = <<>>
                /\ result.errors = context.errors
                /\ Len(result.errors) = Len(LoopErrors)
                /\ schema = NoSchema

\* A call has returned whose explicit schema file did not parse while the
\* other two files were good and the record would have violated the schema
C13_Witness ==
    /\ pc = "done"
    /\ validate_output
    /\ world.installed
    /\ cached = NoSchema
    /\ world.explicit = "malformed"
    /\ world.envvar = "ok"
    /\ world.bundled = "ok"
    /\ world.violations > 0
    /\ result.is_valid

(***************************************************************************)
(* Reproducible conversion                                                 *)
(***************************************************************************)
\* Two finished calls were given the same source and the same injected
\* timestamp, and no record_id
SameArguments ==
    /\ pc = "done"
    /\ other.pc = "done"
    /\ source = other.source
    /\ call = other.call
    /\ call.record_id = NoId
    /\ call.timestamp # NoTimestamp

\* C14: two convert() calls given the same source and the same injected
\* timestamp (record_id omitted) return the same record identifier and the
\* same record, including created_utc and acquired_start_utc.
C14_Deterministic ==
    SameArguments =>
        /\ result.record_id = other.result.record_id
        /\ result.record = other.result.record

(***************************************************************************)
(* The measurement series                                                  *)
(***************************************************************************)
\* The nested arrays of the source being converted
Data == source.reflectivity.reflectivity

\* Measurement ran on a source with non-empty q and r
SeriesCase ==
    /\ pc = "done"
    /\ \E i \in 1..Len(mappers) : mappers[i].cls = "MeasurementMapper"
    /\ Truthy(source.reflectivity)
    /\ Truthy(Data)
    /\ Len(Data.q) > 0
    /\ Len(Data.r) > 0

\* The names of the channels of the one series of the measurement block
ChannelNames ==
    [i \in 1..Len(record.measurement.series[1].channels) |->
        record.measurement.series[1].channels[i].name]

\* How many warnings start with the text
WarningsAbout(text) ==
    Cardinality({i \in 1..Len(result.warnings) : result.warnings[i][1] = text})

\* 1 for a non-empty array whose length differs from its partner's
Mismatch(a, b) == IF Len(a) > 0 /\ Len(a) # Len(b) THEN 1 ELSE 0

\* <<name>> for a non-empty array as long as its partner
ChannelFor(name, a, b) == IF Len(a) > 0 /\ Len(a) = Len(b) THEN <<name>> ELSE <<>>

\* C15: for any non-empty q and r, the channels of the measurement series are
\* R first, then dR iff dr is non-empty and as long as r, then dQ iff dq is
\* non-empty and as long as q; a non-empty dr or dq of another length is
\* dropped with exactly one warning each; an absent or empty dr or dq gives
\* neither a channel nor a warning.
C15_Channels ==
    SeriesCase =>
        /\ WarningsAbout("dR length doesn't match R length") = Mismatch(Data.dr, Data.r)
        /\ WarningsAbout("dQ length doesn't match Q length") = Mismatch(Data.dq, Data.q)
        /\ "measurement" \in DOMAIN record =>
              /\ Len(record.measurement.series) = 1
              /\ ChannelNames = <<"R">> \o ChannelFor("dR", Data.dr, Data.r)
                                        \o ChannelFor("dQ", Data.dq, Data.q)

\* A measurement block was stored for a source whose dr has another length
\* than r and whose dq is as long as q
C15_Witness ==
    /\ SeriesCase
    /\ "measurement" \in DOMAIN record
    /\ Len(Data.dr) > 0
    /\ Len(Data.dr) # Len(Data.r)
    /\ Len(Data.dq) = Len(Data.q)
    /\ ChannelNames = <<"R", "dQ">>
    /\ Len(result.warnings) = 1

\* A measurement block was stored for a source without dr and dq
C15_WitnessAbsent ==
    /\ SeriesCase
    /\ "measurement" \in DOMAIN record
    /\ Data.dr = <<>>
    /\ Data.dq = <<>>
    /\ ChannelNames = <<"R">>
    /\ result.warnings = <<>>

\* The channels of the stored series, and its q values
Channels == record.measurement.series[1].channels

QOut == record.measurement.series[1].independent_variables[1].values

\* The source array a channel is made from
InputOf(name) ==
    CASE name = "R" -> Data.r
      [] name = "dR" -> Data.dr
      [] name = "dQ" -> Data.dq

\* What a wrapped scalar holds; any other value is itself
Held(x) == IF x.k = "item" THEN x.v ELSE x

\* out is what sanitization makes of the value u: null for NaN, an infinity
\* or a non-number; otherwise the same number, an int exactly when u is one
SanitizedValue(out, u) ==
    IF u.k \in {"nan", "inf", "bad"}
    THEN out = JsonNull
    ELSE /\ out.k \in {"int", "float"}
         /\ out.k = "int" <=> u.k = "int"
         /\ out.v = u.v

SanitizedArray(out, in) ==
    /\ Len(out) = Len(in)
    /\ \A i \in 1..Len(in) : SanitizedValue(out[i], Held(in[i]))

\* C16: numeric sanitization maps every input array (q, r, dr, dq alike) to an
\* output array of the same length in which exactly the positions holding NaN,
\* an infinity or a non-numeric value, wrapped or not, are null, integers
\* are the same integers, and every other value is the same number.
C16_Sanitized ==
    (SeriesCase /\ "measurement" \in DOMAIN record) =>
        /\ SanitizedArray(QOut, Data.q)
        /\ \A i \in 1..Len(Channels) :
              SanitizedArray(Channels[i].values, InputOf(Channels[i].name))

\* A stored series whose dR channel was made from a dr with an infinity and a
\* wrapped integer
C16_Witness ==
    /\ SeriesCase
    /\ "measurement" \in DOMAIN record
    /\ Data.dr = <<NegInf, Wrapped(I(400))>>
    /\ Len(Channels) = 3
    /\ Channels[2].name = "dR"
    /\ Channels[2].values = <<JsonNull, I(400)>>

\* A stored series whose q holds NaN and whose dQ channel was made from a
\* string that parses and a string that does not
C16_WitnessStrings ==
    /\ SeriesCase
    /\ "measurement" \in DOMAIN record
    /\ Data.dq = <<Str(150), Bad>>
    /\ Channels[3].values = <<F(150), JsonNull>>

(***************************************************************************)
(* The context block                                                       *)
(***************************************************************************)
\* The Context mapper ran
ContextCase ==
    /\ pc = "done"
    /\ \E i \in 1..Len(mappers) : mappers[i].cls = "ContextMapper"

\* The environment string: the ambient medium, else the description
EnvironmentString ==
    IF ~Truthy(source.environment) THEN ""
    ELSE IF source.environment.ambient_medium # "" THEN source.environment.ambient_medium
    ELSE source.environment.environment_description

\* The temperature of the source, none without an environment
Temperature ==
    IF Truthy(source.environment) THEN source.environment.temperature_value_kelvin
    ELSE NoNum

\* A field that is absent or holds a number (NaN and infinities are floats)
Converts(x) == x.k \in {"none", "int", "float", "nan", "inf"}

\* Every extra condition of the environment is absent or a number
ExtrasConvert ==
    \A i \in 1..Len(ExtraFields) : Converts(source.environment[ExtraFields[i][1]])

\* The source has the required pair and nothing float() rejects
ContextExpected ==
    /\ EnvironmentString # ""
    /\ Temperature.k # "none"
    /\ Converts(Temperature)
    /\ ExtrasConvert

C17_WitnessOmitted ==
    /\ ContextCase
    /\ "context" \notin DOMAIN record
    /\ Truthy(source.reflectivity)
    /\ EnvironmentString = "air"
    /\ source.environment.environment_description # ""
    /\ source.environment.pressure_value_pa = F(1000)
    /\ Temperature.k = "none"
    /\ result.errors = <<>>

(***************************************************************************)
(* The assets block                                                        *)
(***************************************************************************)
\* The Assets mapper ran
AssetsCase ==
    /\ pc = "done"
    /\ \E i \in 1..Len(mappers) : mappers[i].cls = "AssetsMapper"

\* Its call in the log
AssetsCall == invoked[CHOOSE i \in 1..Len(mappers) : mappers[i].cls = "AssetsMapper"]

\* The five places a file reference is looked for, in order, with what was
\* found there
Candidates ==
    << [path |-> source.reflectivity.raw_file_path,
        found |-> Truthy(source.reflectivity) /\ source.reflectivity.raw_file_path # ""],
       [path |-> source.reflectivity.reduced_file,
        found |-> Truthy(source.reflectivity) /\ source.reflectivity.reduced_file # ""],
       [path |-> source.reflectivity.reflectivity.source_file,
        found |-> /\ Truthy(source.reflectivity)
                  /\ source.reflectivity.reflectivity.source_file # ""
                  /\ source.reflectivity.reflectivity.source_file
                        # source.reflectivity.raw_file_path
                  /\ source.reflectivity.reflectivity.source_file
                        # source.reflectivity.reduced_file],
       [path |-> source.sample.sample_file,
        found |-> Truthy(source.sample) /\ source.sample.sample_file # ""],
       [path |-> source.environment.environment_file,
        found |-> Truthy(source.environment) /\ source.environment.environment_file # ""] >>

IsFound(c) == c.found

Discovered == SelectSeq(Candidates, IsFound)

\* k written with three decimal digits
ThreeDigits(k) ==
    << HexDigits[((k \div 100) % 10) + 1], HexDigits[((k \div 10) % 10) + 1],
       HexDigits[(k % 10) + 1] >>

C18_WitnessDistinct ==
    /\ AssetsCase
    /\ "assets" \in DOMAIN record
    /\ source.reflectivity.reflectivity.source_file = "/data/raw.nxs"
    /\ source.reflectivity.raw_file_path = "/data/raw.nxs"
    /\ Len(record.assets) = 2
    /\ record.assets[2].uri[2] = "file:///data/sample.json"
    /\ record.assets[2].asset_id[3] = <<"0", "0", "2">>

\* The first six characters of a placeholder
Marker == <<"0", "0", "0", "0", "0", "0">>

\* The asset's file was a readable regular file when the mapper ran
WasRead(asset) == FilePathOf(asset.uri[2]) \in AssetsCall.opened

\* C19: for every asset whose path is not a reachable, readable regular
\* file, sha256 is "000000" followed by characters 6 to 63 of the hex SHA-256
\* of the path string; for a readable file it is the SHA-256 of the file.
C19_Sha256 ==
    (AssetsCase /\ "assets" \in DOMAIN record) =>
        \A k \in 1..Len(record.assets) :
            /\ Len(record.assets[k].sha256) = 64
            /\ IF WasRead(record.assets[k])
               THEN record.assets[k].sha256
                        = hexdigest(FileBytes(FilePathOf(record.assets[k].uri[2])))
               ELSE /\ SubSeq(record.assets[k].sha256, 1, 6) = Marker
                    /\ \A i \in 7..64 :
                          record.assets[k].sha256[i]
                              = hexdigest(encode(record.assets[k].uri[2]))[i]

\* An assets block with a placeholder for the raw file, which could not be
\* read, and the digest of the sample file, which was given as a file:// URI
C19_Witness ==
    /\ AssetsCase
    /\ "assets" \in DOMAIN record
    /\ Len(record.assets) = 2
    /\ record.assets[1].uri[2] = "/data/raw.nxs"
    /\ ~WasRead(record.assets[1])
    /\ SubSeq(record.assets[1].sha256, 1, 6) = Marker
    /\ record.assets[2].uri[2] = "file:///data/sample.json"
    /\ WasRead(record.assets[2])
    /\ SubSeq(record.assets[2].sha256, 1, 6) # Marker

(***************************************************************************)
(* Record identifiers                                                      *)
(***************************************************************************)
\* convert() has just generated the record id of this call
Generated == pc = "mapping" /\ idx = 1 /\ call.record_id = NoId

\* The id as the string the record carries
IdString == ulid_string(context.record_id)

TimePrefix(s) == SubSeq(s, 1, 10)

\* The place of a character in the ASCII order of the alphabet
Rank(c) == CHOOSE i \in 1..Len(Crockford) : Crockford[i] = c

\* a <= b in lexicographic order
RECURSIVE LexLeq(_, _)
LexLeq(a, b) ==
    IF a = <<>> THEN TRUE
    ELSE IF b = <<>> THEN FALSE
    ELSE IF Head(a) = Head(b) THEN LexLeq(Tail(a), Tail(b))
    ELSE Rank(Head(a)) < Rank(Head(b))

\* The string with its last character replaced
WithLast(s, c) == [s EXCEPT ![Len(s)] = c]

\* What validate_ulid answers on the id and on strings made from it
ValidateAnswers(s) ==
    /\ validate_ulid(s)
    /\ ~validate_ulid(SubSeq(s, 1, 25))
    /\ ~validate_ulid(s \o <<"0">>)
    /\ \A c \in {"I", "L", "O", "U", "a", "-"} : ~validate_ulid(WithLast(s, c))
    /\ validate_ulid(WithLast(s, "Z"))
    /\ validate_ulid([i \in 1..26 |-> "Z"])

\* The time prefix p of an id of time t0 against the ids of the other times
Sortable(p, t0) ==
    \A t \in Times, r \in Randoms :
        /\ t0 < t => LexLeq(p, TimePrefix(ulid_string(generate_ulid(t, r))))
        /\ t < t0 => LexLeq(TimePrefix(ulid_string(generate_ulid(t, r))), p)

SourceLayers == source.sample.layers

\* The Sample mapper ran on layers given as material/thickness pairs
SampleCase ==
    /\ pc = "done"
    /\ \E i \in 1..Len(mappers) : mappers[i].cls = "SampleMapper"
    /\ source.sample.state = "map"
    /\ \A i \in 1..Len(SourceLayers) :
          SourceLayers[i].kind = "dict" /\ SourceLayers[i].thickness.k \in {"int", "inf"}

\* The layers of nonzero thickness
NonZero == {i \in 1..Len(SourceLayers) : SourceLayers[i].thickness # I(0)}

\* The name a layer's material goes by
NameOf(i) == IF SourceLayers[i].material = "" THEN "unknown" ELSE SourceLayers[i].material

\* The thicknesses of the first n layers that are of nonzero thickness and,
\* unless m is "*", of material m
RECURSIVE ThicknessOf(_, _)
ThicknessOf(n, m) ==
    IF n = 0 THEN 0
    ELSE ThicknessOf(n - 1, m)
         + (IF n \in NonZero /\ m \in {"*", NameOf(n)} THEN SourceLayers[n].thickness.v ELSE 0)

\* The fractions of the materials S of a composition, added up
RECURSIVE SumFractions(_, _)
SumFractions(c, S) ==
    IF S = {} THEN 0
    ELSE LET m == CHOOSE x \in S : TRUE
         IN  c[m].v + SumFractions(c, S \ {m})

Abs(n) == IF n < 0 THEN -n ELSE n

\* A composition c of four-decimal fractions (in units of 1e-4) over the
\* nonzero layers, whose thicknesses add up to total: one fraction for each
\* material, each finite and within 0.00005 of the exact one, and their sum
\* within 0.00005 per material of 1.0
FractionsOf(c, total) ==
    /\ DOMAIN c = {NameOf(i) : i \in NonZero}
    /\ \A m \in DOMAIN c :
          /\ IsFinite(c[m])
          /\ 2 * Abs(c[m].v * total - 10000 * ThicknessOf(Len(SourceLayers), m)) <= Abs(total)
    /\ 2 * Abs(SumFractions(c, DOMAIN c) - 10000) <= Cardinality(DOMAIN c)

\* The layers are all of finite thickness
FiniteLayers == \A i \in 1..Len(SourceLayers) : SourceLayers[i].thickness.k = "int"

\* C21: for sample layers given as material/thickness pairs with at least
\* one nonzero thickness, the sample block has a composition whose
\* per-material thickness fractions are rounded to four decimals, are
\* computed over the nonzero-thickness layers only, and sum to 1.0 within
\* 0.00005 per material.
C21_Composition ==
    SampleCase /\ NonZero # {} =>
        /\ Has(record, "sample")
        /\ Has(record.sample, "composition")
        /\ FractionsOf(record.sample.composition, ThicknessOf(Len(SourceLayers), "*"))

\* What the code does keep: with finite thicknesses of a positive total the
\* composition is there and is as C21 says, and with a total that is not
\* positive there is no composition
C21_FinitePositive ==
    SampleCase /\ FiniteLayers /\ Has(record, "sample") =>
        IF ThicknessOf(Len(SourceLayers), "*") > 0
        THEN /\ Has(record.sample, "composition")
             /\ FractionsOf(record.sample.composition, ThicknessOf(Len(SourceLayers), "*"))
        ELSE ~Has(record.sample, "composition")

\* Three materials of one angstrom each: three fractions of 0.3333
C21_Witness ==
    /\ SampleCase
    /\ Has(record, "sample")
    /\ Has(record.sample, "composition")
    /\ DOMAIN record.sample.composition = {"Cu", "Si", "unknown"}
    /\ \A m \in DOMAIN record.sample.composition : record.sample.composition[m] = F(3333)

\* An infinitely thick layer: a fraction that is NaN
C21_WitnessNaN ==
    /\ SampleCase
    /\ Has(record, "sample")
    /\ Has(record.sample, "composition")
    /\ \E m \in DOMAIN record.sample.composition : record.sample.composition[m] = NaN

(***************************************************************************)
(* The run-start time                                                      *)
(***************************************************************************)
\* The Timestamps mapper ran
TimestampsCase ==
    /\ pc = "done"
    /\ \E i \in 1..Len(mappers) : mappers[i].cls = "TimestampsMapper"

\* The source provides no run-start time: the reflectivity record is null
\* or empty, or has no run_start
NoRunStart ==
    \/ source.reflectivity.state \in {"null", "empty"}
    \/ source.reflectivity.run_start.kind = "none"

\* The timestamps block is there without acquired_start_utc
StartOmitted ==
    /\ Has(record, "timestamps")
    /\ ~Has(record.timestamps, "acquired_start_utc")

\* C22: whenever the source provides no run-start time (the reflectivity
\* record is null, is empty, or lacks run_start), the timestamps block omits
\* acquired_start_utc and the conversion has recorded a warning.
C22_RunStartWarning ==
    TimestampsCase /\ NoRunStart =>
        /\ StartOmitted
        /\ result.warnings # <<>>

\* What the code does keep: the field is omitted whenever there is no
\* run-start time, and the warning about run_start is recorded exactly when
\* a non-empty reflectivity record lacks it
C22_WarnsWithRecord ==
    TimestampsCase =>
        /\ NoRunStart => StartOmitted
        /\ <<"run_start not found, acquired timestamps omitted">> \in Range(result.warnings)
              <=> source.reflectivity.state = "map" /\ NoRunStart

\* A conversion of a null reflectivity record by the Timestamps mapper
\* alone: no acquired_start_utc and no warning
C22_Witness ==
    /\ TimestampsCase
    /\ Len(mappers) = 1
    /\ source.reflectivity.state = "null"
    /\ StartOmitted
    /\ result.warnings = <<>>

(***************************************************************************)
(* What Descriptors reads                                                  *)
(***************************************************************************)
\* The Descriptors mapper ran and its block is in the record
DescriptorsCase ==
    /\ pc = "done"
    /\ \E i \in 1..Len(mappers) : mappers[i].cls = "DescriptorsMapper"
    /\ Has(record, "descriptors")

\* The descriptors of the block
Emitted == record.descriptors.outputs[1].descriptors

\* The descriptors of a name
Named(name) == {i \in 1..Len(Emitted) : Emitted[i].name = name}

\* The number a descriptor of that name carries, none without such a descriptor
NumberNamed(name) ==
    IF Named(name) = {} THEN NoNum ELSE Emitted[CHOOSE i \in Named(name) : TRUE].value

\* The geometry the measurement_geometry descriptor carries, "" when it is
\* missing or undetermined
GeometryNamed ==
    IF \E i \in Named("measurement_geometry") : Emitted[i].value # "undetermined"
    THEN Emitted[CHOOSE i \in Named("measurement_geometry") : TRUE].value
    ELSE ""

\* A number read typed first: the typed value when set, else nothing or the
\* value of the bag
TypedFirst(emitted, typed, key) ==
    IF typed.k # "none" THEN emitted = typed
    ELSE emitted \in {NoNum, Get(context.metadata, key, NoNum)}

\* C23: for any context, Descriptors takes each of q_min, q_max, n_points
\* and geometry from the typed channel (measurement_data) when it is set
\* there, and takes a value from the metadata bag only when the typed
\* channel does not have it.
C23_TypedFirst ==
    DescriptorsCase =>
        /\ TypedFirst(NumberNamed("q_range_min"), context.measurement_data.q_min, "q_min")
        /\ TypedFirst(NumberNamed("q_range_max"), context.measurement_data.q_max, "q_max")
        /\ TypedFirst(NumberNamed("total_points"), context.measurement_data.n_points,
                      "n_points")
        /\ IF context.measurement_data.measurement_geometry # ""
           THEN GeometryNamed = context.measurement_data.measurement_geometry
           ELSE GeometryNamed \in {"", Get(context.metadata, "measurement_geometry", "")}

\* Some q statistic is set on the typed channel
AnyTyped ==
    \E f \in {"q_min", "q_max", "n_points"} : context.measurement_data[f].k # "none"

\* The value Descriptors reads for a q statistic: all three from the typed
\* channel when any of them is set there, else all three from the bag
ReadFor(f) ==
    IF AnyTyped THEN context.measurement_data[f] ELSE Get(context.metadata, f, NoNum)

\* What the code does keep: the three q statistics are read together, and
\* the geometry is read from the metadata bag alone
C23_AsCoded ==
    DescriptorsCase =>
        /\ NumberNamed("q_range_min") = ReadFor("q_min")
        /\ NumberNamed("q_range_max") = ReadFor("q_max")
        /\ NumberNamed("total_points") = ReadFor("n_points")
        /\ GeometryNamed = Get(context.metadata, "measurement_geometry", "")

\* A geometry published on the typed channel only, and none in the block
C23_Witness ==
    /\ DescriptorsCase
    /\ context.measurement_data.measurement_geometry = "front reflection"
    /\ ~Has(context.metadata, "measurement_geometry")
    /\ GeometryNamed = ""

(***************************************************************************)
(* Descriptors with nothing to derive                                      *)
(***************************************************************************)
\* Nothing can be derived: no q statistics and no geometry on either
\* channel, and no probe in the source
NothingDerivable ==
    /\ ~AnyTyped
    /\ context.measurement_data.measurement_geometry = ""
    /\ \A f \in {"q_min", "q_max", "n_points", "measurement_geometry"} :
          ~Has(context.metadata, f)
    /\ source.reflectivity.state # "map" \/ source.reflectivity.probe = ""

\* C24: when nothing can be derived (no published q statistics, no geometry,
\* no probe, for example a null reflectivity record), Descriptors emits
\* exactly one descriptor, the placeholder conversion_status =
\* "minimal_data", and a warning is recorded.
C24_Placeholder ==
    DescriptorsCase /\ NothingDerivable =>
        /\ Len(Emitted) = 1
        /\ Emitted[1].name = "conversion_status"
        /\ Emitted[1].value = "minimal_data"
        /\ result.warnings # <<>>

\* What the code does keep: with nothing to derive the one descriptor is
\* measurement_geometry = "undetermined", with the warning about the
\* geometry, and no block ever holds the placeholder
C24_Undetermined ==
    DescriptorsCase =>
        /\ Named("conversion_status") = {}
        /\ Named("measurement_geometry") # {}
        /\ NothingDerivable =>
              /\ Len(Emitted) = 1
              /\ Emitted[1].name = "measurement_geometry"
              /\ Emitted[1].value = "undetermined"
              /\ <<"Measurement geometry could not be determined">> \in Range(result.warnings)

\* A null reflectivity record converted by the default mappers
C24_Witness ==
    /\ DescriptorsCase
    /\ NothingDerivable
    /\ mappers = _default_mappers
    /\ source.reflectivity.state = "null"
    /\ Len(Emitted) = 1
    /\ Emitted[1].value = "undetermined"

(***************************************************************************)
(* Who writes the channels of the context                                  *)
(***************************************************************************)
\* One iteration of the loop of a converter with the default mappers: the
\* map() and validate() of mappers[idx]
DefaultMapperStep ==
    /\ mappers = _default_mappers
    /\ pc = "mapping"
    /\ idx <= Len(mappers)
    /\ idx' = idx + 1

\* The step leaves the typed published data and the metadata bag as they were
ChannelsKept ==
    /\ context'.metadata = context.metadata
    /\ context'.measurement_data = context.measurement_data

\* The step leaves the identity of the conversion and the source as they were
IdentityKept ==
    /\ context'.record_id = context.record_id
    /\ context'.created_utc = context.created_utc
    /\ source' = source

\* C25: during a conversion with the default mappers only Measurement and
\* AcquisitionSource write to the channels of the context (the typed
\* published data and the metadata bag); the map and validate of every
\* other mapper leave the channels, record_id and created_at unchanged, and
\* no mapper changes the source record.
C25_ChannelWriters ==
    [][DefaultMapperStep =>
          /\ IdentityKept
          /\ mappers[idx].cls \notin {"MeasurementMapper", "AcquisitionSourceMapper"}
                => ChannelsKept]_vars

\* What the code does keep: Sample is a third writer, of the bag's
\* total_thickness_A alone; every other mapper leaves the channels alone
C25_ThreeWriters ==
    [][DefaultMapperStep =>
          /\ IdentityKept
          /\ mappers[idx].cls \notin {"MeasurementMapper", "AcquisitionSourceMapper",
                                       "SampleMapper"} => ChannelsKept
          /\ mappers[idx].cls = "SampleMapper" =>
                /\ context'.measurement_data = context.measurement_data
                /\ \A k \in DOMAIN context'.metadata :
                      k = "total_thickness_A"
                      \/ (Has(context.metadata, k) /\ context'.metadata[k] = context.metadata[k])
                /\ DOMAIN context.metadata \subseteq DOMAIN context'.metadata]_vars

\* A conversion by the default mappers whose bag holds the total thickness
\* that Sample wrote
C25_Witness ==
    /\ mappers = _default_mappers
    /\ pc = "done"
    /\ Has(context.metadata, "total_thickness_A")
    /\ Has(record, "sample")

(***************************************************************************)
(* The context only grows                                                  *)
(***************************************************************************)
\* A step inside one conversion: an iteration of the loop, the look at the
\* schema cache, or the schema validation and the building of the result
ConversionStep ==
    /\ pc \in {"mapping", "loading"}
    /\ pc' \in {"mapping", "loading", "done"}
    /\ threads = 1

\* b is a with entries appended
Extends(a, b) == Len(a) <= Len(b) /\ SubSeq(b, 1, Len(a)) = a

\* The typed fields that are set stay as they are
TypedKept ==
    /\ \A f \in {"q_min", "q_max", "n_points"} :
          context.measurement_data[f].k # "none"
              => context'.measurement_data[f] = context.measurement_data[f]
    /\ context.measurement_data.measurement_geometry # ""
          => context'.measurement_data.measurement_geometry
                 = context.measurement_data.measurement_geometry

\* The entries of the bag stay as they are
BagKept ==
    \A k \in DOMAIN context.metadata :
        Has(context'.metadata, k) /\ context'.metadata[k] = context.metadata[k]

\* C26: within one conversion the context is monotone: after every step the
\* warnings and the errors are their previous values with entries appended
\* (none removed, reordered or reset), and a published field (q_min, q_max,
\* n_points, geometry, organization), once set, is not cleared or changed.
C26_ContextMonotone ==
    [][ConversionStep =>
          /\ Extends(context.warnings, context'.warnings)
          /\ Extends(context.errors, context'.errors)
          /\ TypedKept
          /\ BagKept]_vars

\* A finished conversion with a warning, an error, and every published
\* field set
C26_Witness ==
    /\ pc = "done"
    /\ mappers = _default_mappers
    /\ Len(context.warnings) >= 1
    /\ Len(context.errors) >= 1
    /\ AnyTyped
    /\ context.measurement_data.measurement_geometry # ""
    /\ Has(context.metadata, "organization")

(***************************************************************************)
(* Properties of to_json                                                   *)
(***************************************************************************)
\* What a JSON parser reads back: white space between the tokens is skipped
Significant(text) == SelectSeq(text, LAMBDA x : x.tok \notin {"space", "newline"})

Drop(toks, n) == SubSeq(toks, n + 1, Len(toks))

RECURSIVE ParseValue(_), ParseMembers(_, _), AfterMember(_, _, _), ParseItems(_, _),
          AfterItem(_, _)

\* The value at the head of the tokens, and the tokens after it
ParseValue(toks) ==
    IF toks[1].tok = "{"
    THEN IF toks[2].tok = "}" THEN [val |-> Dict(EmptyDict), rest |-> Drop(toks, 2)]
         ELSE ParseMembers(Drop(toks, 1), EmptyDict)
    ELSE IF toks[1].tok = "["
    THEN IF toks[2].tok = "]" THEN [val |-> List(<<>>), rest |-> Drop(toks, 2)]
         ELSE ParseItems(Drop(toks, 1), <<>>)
    ELSE [val |-> JsonValue(toks[1].tok, toks[1].s, EmptyDict, <<>>), rest |-> Drop(toks, 1)]

\* key ":" value, then "," and the next member, or "}"
ParseMembers(toks, acc) == AfterMember(toks[1].s, ParseValue(Drop(toks, 2)), acc)

AfterMember(key, parsed, acc) ==
    IF parsed.rest[1].tok = ","
    THEN ParseMembers(Drop(parsed.rest, 1), Put(acc, key, parsed.val))
    ELSE [val |-> Dict(Put(acc, key, parsed.val)), rest |-> Drop(parsed.rest, 1)]

\* value, then "," and the next item, or "]"
ParseItems(toks, acc) == AfterItem(ParseValue(toks), acc)

AfterItem(parsed, acc) ==
    IF parsed.rest[1].tok = ","
    THEN ParseItems(Drop(parsed.rest, 1), Append(acc, parsed.val))
    ELSE [val |-> List(Append(acc, parsed.val)), rest |-> Drop(parsed.rest, 1)]

\* json.loads(text)
json_loads(text) == ParseValue(Significant(text)).val

\* The text is one JSON value and nothing after it
WellFormed(text) == ParseValue(Significant(text)).rest = <<>>

\* after is before without its null-valued dict entries, at every depth, and
\* with every list item in its place
RECURSIVE Stripped(_, _)
Stripped(before, after) ==
    IF before.t = "dict"
    THEN /\ after.t = "dict"
         /\ DOMAIN after.f = {k \in DOMAIN before.f : before.f[k] # None}
         /\ \A k \in DOMAIN after.f : Stripped(before.f[k], after.f[k])
    ELSE IF before.t = "list"
    THEN /\ after.t = "list"
         /\ Len(after.l) = Len(before.l)
         /\ \A i \in 1..Len(before.l) : Stripped(before.l[i], after.l[i])
    ELSE after = before

\* The text to_json returned reads back as the record (include_nulls) or as
\* the record without its null-valued dict entries
ReadsBack(doc, text, include_nulls) ==
    /\ WellFormed(text)
    /\ \A parsed \in {json_loads(text)} :
           IF include_nulls THEN parsed = doc ELSE Stripped(doc, parsed)

\* C27: to_json with include_nulls=false removes exactly the null-valued
\* mapping entries at every nesting depth, mappings inside lists included,
\* and nothing else: no list item is removed, so an array keeps its length
\* and its null positions; with include_nulls=true the record is serialized
\* unchanged; and the indent never changes the parsed content.
C27_NullsRemoved ==
    Len(json.text) > 0 =>
        /\ ReadsBack(result.record, json.text, json.include_nulls)
        /\ \A indent \in Indents :
               json_loads(to_json(result, indent, json.include_nulls))
                   = json_loads(json.text)

\* A default serialization, indented, of a record with a null entry inside
\* a dict of a list, a null list item, and a values array with a null position
C27_Witness ==
    /\ Len(json.text) > 0
    /\ ~json.include_nulls
    /\ json.indent = Indent(2)
    /\ result.record = Dict([values |-> List(<<Number("1"), None, Number("3")>>),
                             outer |-> List(<<Dict([a |-> Number("1"), b |-> None]), None>>)])
    /\ json_loads(json.text) = Dict([values |-> List(<<Number("1"), None, Number("3")>>),
                                     outer |-> List(<<Dict([a |-> Number("1")]), None>>)])

(***************************************************************************)
(* The lengths of the measurement arrays                                   *)
(***************************************************************************)
\* A measurement block was stored for a source with non-empty q and r
SeriesStored == SeriesCase /\ "measurement" \in DOMAIN record

\* C28: in every emitted measurement block, the values array of each channel
\* (R, and dR and dQ when present) is as long as the values array of q.
C28_EqualLengths ==
    SeriesStored =>
        \A i \in 1..Len(Channels) : Len(Channels[i].values) = Len(QOut)

\* C28 (as the code has it): R and dR are as long as the r of the source, dQ
\* and the q values as long as its q; r is never compared with q, so the
\* channels are as long as q when r is.
C28_AsCoded ==
    SeriesStored =>
        /\ Len(QOut) = Len(Data.q)
        /\ \A i \in 1..Len(Channels) :
              Len(Channels[i].values)
                  = IF Channels[i].name = "dQ" THEN Len(Data.q) ELSE Len(Data.r)
        /\ Len(Data.r) = Len(Data.q) =>
              \A i \in 1..Len(Channels) : Len(Channels[i].values) = Len(QOut)

\* A stored series with an R and a dR channel for an r and a dr longer than q
C28_Witness ==
    /\ SeriesStored
    /\ Len(Data.q) = 1
    /\ Len(Data.r) = 2
    /\ Len(Channels) >= 2
    /\ Channels[2].name = "dR"
    /\ Len(Channels[2].values) = 2
    /\ Len(QOut) = 1

(***************************************************************************)
(* The numbers of the record                                               *)
(***************************************************************************)
\* A number of the record that JSON can hold: null, or a finite number
FiniteOrNull(x) == x = JsonNull \/ IsFinite(x)

\* A published number is finite, or was not published
FiniteOrUnset(x) == x = NoNum \/ IsFinite(x)

\* Every value of the stored q array and of the stored channels
ArraysFinite ==
    /\ \A i \in 1..Len(QOut) : FiniteOrNull(QOut[i])
    /\ \A c \in 1..Len(Channels) :
          \A i \in 1..Len(Channels[c].values) : FiniteOrNull(Channels[c].values[i])

\* The q statistics Measurement published, on both channels
PublishedFinite ==
    /\ FiniteOrUnset(context.measurement_data.q_min)
    /\ FiniteOrUnset(context.measurement_data.q_max)
    /\ FiniteOrUnset(Get(context.metadata, "q_min", NoNum))
    /\ FiniteOrUnset(Get(context.metadata, "q_max", NoNum))

\* The q-range descriptors and their sigma
QRangeFinite ==
    "descriptors" \in DOMAIN record =>
        \A i \in Named("q_range_min") \cup Named("q_range_max") :
            /\ FiniteOrNull(Emitted[i].value)
            /\ FiniteOrNull(Emitted[i].uncertainty.sigma)

\* C29: for any q array Measurement accepts, one with NaN or an infinity
\* included, every numeric value placed in the record is finite or null: the
\* arrays, the published q_min and q_max, and the q_range_min and q_range_max
\* descriptor values and their sigma are never NaN or an infinity.
C29_FiniteNumbers ==
    SeriesStored => ArraysFinite /\ PublishedFinite /\ QRangeFinite

\* C29 (as the code has it): the arrays are always sanitized; the published
\* q range and its descriptors are finite when every element of q is, and
\* are min(q) and max(q) as Python computes them otherwise.
C29_AsCoded ==
    SeriesStored =>
        /\ ArraysFinite
        /\ AllFinite(Data.q) => PublishedFinite /\ QRangeFinite
        /\ context.measurement_data.q_min = ToFloat(PyMin(Data.q))
        /\ context.measurement_data.q_max = ToFloat(PyMax(Data.q))

\* A stored measurement block for a q that starts with NaN: the q array has
\* null in its place and the q_range_min descriptor and its sigma are NaN
C29_Witness ==
    /\ SeriesStored
    /\ "descriptors" \in DOMAIN record
    /\ Data.q = <<NaN, F(100)>>
    /\ QOut = <<JsonNull, F(100)>>
    /\ \E i \in Named("q_range_min") :
          Emitted[i].value = NaN /\ Emitted[i].uncertainty.sigma = NaN

\* A stored measurement block for a q with an infinity: q_range_max and its
\* sigma are infinite
C29_WitnessInfinite ==
    /\ SeriesStored
    /\ Data.q = <<F(100), PosInf>>
    /\ \E i \in Named("q_range_max") :
          Emitted[i].value = PosInf /\ Emitted[i].uncertainty.sigma = PosInf

(***************************************************************************)
(* Publication and the measurement block                                   *)
(***************************************************************************)
\* A finished conversion by the default mappers whose record has no
\* measurement block
NoMeasurementBlock ==
    /\ pc = "done"
    /\ mappers = _default_mappers
    /\ "measurement" \notin DOMAIN record

\* The map() call of Measurement raised
MeasurementRaised ==
    \E i \in 1..Len(invoked) :
        mappers[i].cls = "MeasurementMapper" /\ invoked[i].map = "raise"

\* No q statistic is set on either channel
QStatsUnpublished ==
    /\ ~AnyTyped
    /\ \A k \in {"q_min", "q_max", "n_points"} : ~Has(context.metadata, k)

\* No geometry is set on either channel
GeometryUnpublished ==
    /\ context.measurement_data.measurement_geometry = ""
    /\ ~Has(context.metadata, "measurement_geometry")

\* No q-range descriptor is emitted
NoQRange == Named("q_range_min") \cup Named("q_range_max") = {}

\* C30: publication is all-or-nothing with the measurement block: when the
\* record of a conversion has no measurement block (Measurement returned
\* null, or raised part-way through), none of q_min, q_max, n_points or
\* geometry was published, and Descriptors reports measurement_geometry as
\* undetermined, with no q-range descriptor.
C30_AllOrNothing ==
    NoMeasurementBlock =>
        /\ QStatsUnpublished
        /\ GeometryUnpublished
        /\ GeometryNamed = ""
        /\ NoQRange

\* C30 (as the code has it): without a measurement block the q statistics
\* are unpublished and no q-range descriptor is emitted; the geometry is
\* unpublished when Measurement returned null, but a Measurement that raised
\* had already published the geometry of the source, and Descriptors
\* reports what the bag holds.
C30_AsCoded ==
    NoMeasurementBlock =>
        /\ QStatsUnpublished
        /\ NoQRange
        /\ ~MeasurementRaised => GeometryUnpublished
        /\ MeasurementRaised =>
              /\ context.measurement_data.measurement_geometry = Data.measurement_geometry
              /\ Get(context.metadata, "measurement_geometry", "") = Data.measurement_geometry
        /\ GeometryNamed = Get(context.metadata, "measurement_geometry", "")

\* Measurement raised on a q with a non-number after publishing the
\* geometry: no measurement block, and a geometry descriptor
C30_Witness ==
    /\ NoMeasurementBlock
    /\ MeasurementRaised
    /\ Data.q = <<F(100), Bad>>
    /\ context.measurement_data.measurement_geometry = "front reflection"
    /\ GeometryNamed = "front reflection"

\* Measurement returned null: no block and nothing published
C30_WitnessNull ==
    /\ NoMeasurementBlock
    /\ ~MeasurementRaised
    /\ GeometryUnpublished
    /\ GeometryNamed = ""

====
